---- MODULE Spec2Model ----
(***************************************************************************)
(* A model of the GAQL query analysis engine (package @gaql/core): the     *)
(* versioned schema registry, the validator, the suggestion engine and the *)
(* cursor-context classifier.                                              *)
(*                                                                         *)
(* Strings of the program are sequences of one-character strings, so that  *)
(* the regular expressions and scanners of the source can be modelled by   *)
(* what they match, character by character.                                *)
(***************************************************************************)
EXTENDS Integers, Sequences, FiniteSets, TLC

VARIABLES
    currentApiVersion,  \* schema.ts: module-level `let currentApiVersion`
    query,              \* the text handed to the operation under analysis
    result,             \* what the last validateQuery call returned
    returned,           \* TRUE once the call under analysis has returned
    input,              \* findClosestMatch: the input string
    candidates,         \* findClosestMatch: the candidate list
    suggestion,         \* findClosestMatch: what the last call returned
    position,           \* determineContext / getCompletions: the cursor;
                        \* scanner loops: the scan position
    version,            \* getCompletions: the version argument
    context,            \* what the last determineContext call returned
    completion,         \* outcome of the last getCompletions call
    catalog,            \* registry lookups: the schema artifacts as loaded
    call,               \* registry lookups and scanners: the call made last
    outcome,            \* what that call returned, or that it raised
    builders,           \* query builder: the GoogleAdsQueryBuilder objects
    validators,         \* query builder: the QueryValidator objects they refer to
    documents,          \* editor: the text of each open document
    settings,           \* editor: the configuration section 'gaql'
    diagnostics         \* editor: the diagnostic collection, an entry per document

vars == <<currentApiVersion, query, result, returned, input, candidates,
          suggestion, position, version, context, completion, catalog, call,
          outcome, builders, validators, documents, settings, diagnostics>>

----------------------------------------------------------------------------
(* Characters *)

LowerLetters == <<"a","b","c","d","e","f","g","h","i","j","k","l","m","n","o","p","q","r","s","t","u","v","w","x","y","z">>
UpperLetters == <<"A","B","C","D","E","F","G","H","I","J","K","L","M","N","O","P","Q","R","S","T","U","V","W","X","Y","Z">>
Digits == {"0","1","2","3","4","5","6","7","8","9"}

Range(s) == {s[i] : i \in DOMAIN s}

LowerSet == Range(LowerLetters)
UpperSet == Range(UpperLetters)

\* \w of a JavaScript regular expression: [A-Za-z0-9_]
WordChars == LowerSet \cup UpperSet \cup Digits \cup {"_"}

\* [a-z_] under the i flag: the start of an identifier
IdentStartChars == LowerSet \cup UpperSet \cup {"_"}

\* \s of a JavaScript regular expression (the members the model's texts use)
WhitespaceChars == {" ", "\t", "\n", "\r"}

UpperOf == [c \in LowerSet |-> UpperLetters[CHOOSE i \in 1..26 : LowerLetters[i] = c]]
LowerOf == [c \in UpperSet |-> LowerLetters[CHOOSE i \in 1..26 : UpperLetters[i] = c]]

\* String.prototype.toUpperCase / toLowerCase, one character
ToUpperChar(c) == IF c \in LowerSet THEN UpperOf[c] ELSE c
ToLowerChar(c) == IF c \in UpperSet THEN LowerOf[c] ELSE c

toLowerCase(s) == [i \in 1..Len(s) |-> ToLowerChar(s[i])]

\* The value of an absent optional property (undefined), and of a failed match
Absent == <<"undefined">>

----------------------------------------------------------------------------
(* String helpers shared by the regular expressions *)

RECURSIVE Cat(_)
\* Concatenation of a sequence of strings
Cat(parts) == IF parts = <<>> THEN <<>> ELSE Head(parts) \o Cat(Tail(parts))

IsWordAt(t, i) == i >= 1 /\ i <= Len(t) /\ t[i] \in WordChars
IsSpaceAt(t, i) == i >= 1 /\ i <= Len(t) /\ t[i] \in WhitespaceChars

\* The literal kw (given in upper case) matches t at i, ignoring case
MatchesAt(t, i, kw) ==
    /\ i >= 1
    /\ i + Len(kw) - 1 <= Len(t)
    /\ \A k \in 1..Len(kw) : ToUpperChar(t[i + k - 1]) = kw[k]

\* First index >= i holding no whitespace (Len(t) + 1 when there is none): \s*
SkipSpace(t, i) ==
    CHOOSE k \in i..(Len(t) + 1) :
        /\ k = Len(t) + 1 \/ t[k] \notin WhitespaceChars
        /\ \A j \in i..(k - 1) : t[j] \in WhitespaceChars

\* First index >= i holding no word character: \w*
SkipWord(t, i) ==
    CHOOSE k \in i..(Len(t) + 1) :
        /\ k = Len(t) + 1 \/ t[k] \notin WordChars
        /\ \A j \in i..(k - 1) : t[j] \in WordChars

\* t.substring(from - 1, to - 1) in 1-based, end-exclusive indices
Slice(t, from, to) == SubSeq(t, from, to - 1)

\* String.prototype.trim
trim(t) ==
    LET n == Len(t)
        a == SkipSpace(t, 1)
    IN  IF a > n THEN <<>>
        ELSE LET b == CHOOSE k \in a..n :
                        /\ t[k] \notin WhitespaceChars
                        /\ \A j \in (k + 1)..n : t[j] \in WhitespaceChars
             IN  SubSeq(t, a, b)

RECURSIVE SplitFrom(_, _, _)
\* String.prototype.split(sep) for a one-character separator, from index i
SplitFrom(t, sep, i) ==
    LET n == Len(t)
        hits == {k \in i..n : t[k] = sep}
    IN  IF hits = {} THEN <<Slice(t, i, n + 1)>>
        ELSE LET k == CHOOSE k \in hits : \A j \in hits : k <= j
             IN  <<Slice(t, i, k)>> \o SplitFrom(t, sep, k + 1)

split(t, sep) == SplitFrom(t, sep, 1)

\* Array.prototype.includes
includes(list, x) == \E i \in 1..Len(list) : list[i] = x

----------------------------------------------------------------------------
(* Orderings used by the sorts of the registry *)

\* The characters of the model in UTF-16 code unit order (Array.prototype.sort)
CodeUnitOrder ==
    <<"\t", "\n", "\r", " ", "$", "'", ",", ".">>
    \o <<"0","1","2","3","4","5","6","7","8","9">>
    \o <<"<", "=", ">">> \o UpperLetters \o <<"_">> \o LowerLetters \o <<"{", "}">>

\* The characters of catalog names in collation order (String.prototype.localeCompare)
LocaleOrder ==
    <<"_", ".">> \o <<"0","1","2","3","4","5","6","7","8","9">> \o LowerLetters

RankIn(order) == [c \in Range(order) |-> CHOOSE i \in 1..Len(order) : order[i] = c]

CodeUnitRank == RankIn(CodeUnitOrder)
LocaleRank == RankIn(LocaleOrder)

\* a sorts strictly before b, character by character under rank
LexLess(a, b, rank) ==
    LET m == IF Len(a) < Len(b) THEN Len(a) ELSE Len(b)
        diff == {i \in 1..m : a[i] # b[i]}
    IN  IF diff = {} THEN Len(a) < Len(b)
        ELSE LET i == CHOOSE i \in diff : \A j \in diff : i <= j
             IN  rank[a[i]] < rank[b[i]]

RECURSIVE SortStrings(_)
\* Array.prototype.sort() with the default comparison
SortStrings(list) ==
    IF list = <<>> THEN <<>>
    ELSE LET rest == SortStrings(SubSeq(list, 1, Len(list) - 1))
             x == list[Len(list)]
             before == SelectSeq(rest, LAMBDA y : ~LexLess(x, y, CodeUnitRank))
             after == SelectSeq(rest, LAMBDA y : LexLess(x, y, CodeUnitRank))
         IN  before \o <<x>> \o after

RECURSIVE SortByName(_)
\* Array.prototype.sort((a, b) => a.name.localeCompare(b.name)), a stable sort
SortByName(list) ==
    IF list = <<>> THEN <<>>
    ELSE LET rest == SortByName(SubSeq(list, 1, Len(list) - 1))
             x == list[Len(list)]
             before == SelectSeq(rest, LAMBDA y : ~LexLess(x.name, y.name, LocaleRank))
             after == SelectSeq(rest, LAMBDA y : LexLess(x.name, y.name, LocaleRank))
         IN  before \o <<x>> \o after

----------------------------------------------------------------------------
(* The schema artifacts (schemas/fields-v19.json, -v20.json, -v21.json):    *)
(* per version, the resources in key order, each with its field groups by  *)
(* attribution prefix, its metrics and its segments, all in key order.     *)

SupportedApiVersions == {"19", "20", "21"}

CampaignV19 ==
    [name |-> <<"c","a">>,
     fields |-> << [prefix |-> <<"c","a">>, names |-> << <<"n","m">>, <<"i","d">> >>] >>,
     metrics |-> << <<"c","l">> >>,
     segments |-> << <<"d","t">> >>]

CampaignV20 ==
    [name |-> <<"c","a">>,
     fields |-> << [prefix |-> <<"c","a">>, names |-> << <<"n","m">>, <<"i","d">> >>],
                   [prefix |-> <<"c","u">>, names |-> << <<"i","d">> >>] >>,
     metrics |-> << <<"c","l">> >>,
     segments |-> << <<"d","t">> >>]

CampaignV21 ==
    [name |-> <<"c","a">>,
     fields |-> << [prefix |-> <<"c","a">>,
                    names |-> << <<"n","m">>, <<"i","d">>, <<"s","t">>, <<"n","s",".","t","g">> >>],
                   [prefix |-> <<"c","u">>, names |-> << <<"i","d">> >>] >>,
     metrics |-> << <<"c","l">> >>,
     segments |-> << <<"d","t">> >>]

AdGroup ==
    [name |-> <<"a","g">>,
     fields |-> << [prefix |-> <<"a","g">>, names |-> << <<"i","d">> >>] >>,
     metrics |-> <<>>,
     segments |-> <<>>]

versionSchemas ==
    [v \in SupportedApiVersions |->
        CASE v = "19" -> <<CampaignV19>>
          [] v = "20" -> <<CampaignV20, AdGroup>>
          [] v = "21" -> <<CampaignV21, AdGroup>>]

----------------------------------------------------------------------------
(* Schema registry, the variant that reads the module-level version *)

getFieldsData == versionSchemas[currentApiVersion]

\* fieldsData has the key resourceName
HasKey(fieldsData, resourceName) ==
    \E i \in 1..Len(fieldsData) : fieldsData[i].name = resourceName

\* fieldsData[resourceName], for a key it has
Lookup(fieldsData, resourceName) ==
    fieldsData[CHOOSE i \in 1..Len(fieldsData) : fieldsData[i].name = resourceName]

\* One attribution group as FieldDefinitions, in key order
GroupFields(group) ==
    [k \in 1..Len(group.names) |->
        [name |-> group.names[k], type |-> "string",
         description |-> group.prefix \o <<".">> \o group.names[k]]]

MetricFields(data) ==
    [k \in 1..Len(data.metrics) |->
        [name |-> data.metrics[k], type |-> "metric",
         description |-> <<"m","e","t","r","i","c","s",".">> \o data.metrics[k]]]

SegmentFields(data) ==
    [k \in 1..Len(data.segments) |->
        [name |-> data.segments[k], type |-> "segment",
         description |-> <<"s","e","g","m","e","n","t","s",".">> \o data.segments[k]]]

RECURSIVE AllGroupFields(_)
AllGroupFields(groups) ==
    IF groups = <<>> THEN <<>>
    ELSE GroupFields(Head(groups)) \o AllGroupFields(Tail(groups))

\* The flattened field list of a catalog entry, sorted by name
FlattenedFields(data) ==
    SortByName(AllGroupFields(data.fields) \o MetricFields(data) \o SegmentFields(data))

getFieldsForResource(resourceName) ==
    IF ~HasKey(getFieldsData, resourceName) THEN <<>>
    ELSE FlattenedFields(Lookup(getFieldsData, resourceName))

getResourceNames ==
    SortStrings([i \in 1..Len(getFieldsData) |-> getFieldsData[i].name])

\* Fault: the bare field names are taken for the qualified names
Descriptions_BareNames(fieldList) == [i \in 1..Len(fieldList) |-> fieldList[i].name]

\* validFields.map((f) => f.description)
Descriptions(fieldList) == [i \in 1..Len(fieldList) |-> fieldList[i].description]

----------------------------------------------------------------------------
(* Suggestion engine *)

Min2(x, y) == IF x < y THEN x ELSE y

RECURSIVE LevenshteinCells(_, _, _, _)
\* One row of the matrix, filled left to right: row holds its cells 0..Len(row)-1,
\* prev is the row above (cells 0..Len(a)), bc the character of b of this row
LevenshteinCells(a, bc, prev, row) ==
    LET j == Len(row)
    IN  IF j > Len(a) THEN row
        ELSE LET cell == IF bc = a[j] THEN prev[j]
                         ELSE Min2(Min2(prev[j] + 1, row[j] + 1), prev[j + 1] + 1)
             IN  LevenshteinCells(a, bc, prev, Append(row, cell))

RECURSIVE LevenshteinRows(_, _, _)
\* The matrix, filled row by row: matrix holds its rows 0..Len(matrix)-1
LevenshteinRows(a, b, matrix) ==
    LET i == Len(matrix)
    IN  IF i > Len(b) THEN matrix
        ELSE LevenshteinRows(a, b,
                 Append(matrix, LevenshteinCells(a, b[i], matrix[i], <<i>>)))

levenshteinDistance(a, b) ==
    LevenshteinRows(a, b, << [j \in 1..(Len(a) + 1) |-> j - 1] >>)[Len(b) + 1][Len(a) + 1]

\* "No candidate seen yet": Number.POSITIVE_INFINITY
Infinity == -1

RECURSIVE ClosestFrom_LastWins(_, _, _, _, _)
\* Fault: a candidate as close as the closest one so far replaces it
ClosestFrom_LastWins(inp, cands, k, minDistance, closestMatch) ==
    IF k > Len(cands) THEN [minDistance |-> minDistance, closestMatch |-> closestMatch]
    ELSE LET distance == levenshteinDistance(toLowerCase(inp), toLowerCase(cands[k]))
         IN  IF minDistance = Infinity \/ distance <= minDistance
             THEN ClosestFrom_LastWins(inp, cands, k + 1, distance, cands[k])
             ELSE ClosestFrom_LastWins(inp, cands, k + 1, minDistance, closestMatch)

RECURSIVE ClosestFrom(_, _, _, _, _)
\* The loop of findClosestMatch from candidate k on
ClosestFrom(inp, cands, k, minDistance, closestMatch) ==
    IF k > Len(cands) THEN [minDistance |-> minDistance, closestMatch |-> closestMatch]
    ELSE LET distance == levenshteinDistance(toLowerCase(inp), toLowerCase(cands[k]))
         IN  IF minDistance = Infinity \/ distance < minDistance
             THEN ClosestFrom(inp, cands, k + 1, distance, cands[k])
             ELSE ClosestFrom(inp, cands, k + 1, minDistance, closestMatch)

findClosestMatch(inp, cands) ==
    IF Len(cands) = 0 THEN Absent
    ELSE LET best == ClosestFrom(inp, cands, 1, Infinity, Absent)
         IN  \* minDistance <= input.length / 2, a division of reals
             IF 2 * best.minDistance <= Len(inp) THEN best.closestMatch ELSE Absent

----------------------------------------------------------------------------
(* Validator *)

\* The keywords the regular expressions name, in upper case
KwSelect == <<"S","E","L","E","C","T">>
KwFrom == <<"F","R","O","M">>
KwWhere == <<"W","H","E","R","E">>
KwOrder == <<"O","R","D","E","R">>
KwBy == <<"B","Y">>
KwLimit == <<"L","I","M","I","T">>

PLACEHOLDER == <<"'","_","_","P","L","A","C","E","H","O","L","D","E","R","_","_","'">>

RECURSIVE InterpolationBody(_, _)
\* (?:[^{}]|\{[^}]*\})*\} from index j: the index of the closing brace, 0 when
\* the pattern does not match.  Each iteration has one way to go on: a character
\* other than a brace, or an opening brace up to the next closing one.
InterpolationBody(t, j) ==
    IF j > Len(t) THEN 0
    ELSE IF t[j] = "}" THEN j
    ELSE IF t[j] = "{"
         THEN LET closing == {k \in (j + 1)..Len(t) : t[k] = "}"}
              IN  IF closing = {} THEN 0
                  ELSE InterpolationBody(t, 1 + CHOOSE k \in closing : \A m \in closing : k <= m)
    ELSE InterpolationBody(t, j + 1)

\* /\$\{(?:[^{}]|\{[^}]*\})*\}/ at index i: the index of its last character, or 0
InterpolationEnd(t, i) ==
    IF i + 1 <= Len(t) /\ t[i] = "$" /\ t[i + 1] = "{"
    THEN InterpolationBody(t, i + 2)
    ELSE 0

RECURSIVE StripFrom(_, _)
\* The replacement from index i on: the text up to the next match is kept
StripFrom(t, i) ==
    LET matches == {k \in i..Len(t) : InterpolationEnd(t, k) > 0}
    IN  IF matches = {} THEN Slice(t, i, Len(t) + 1)
        ELSE LET k == CHOOSE k \in matches : \A m \in matches : k <= m
             IN  Slice(t, i, k) \o PLACEHOLDER \o StripFrom(t, InterpolationEnd(t, k) + 1)

\* query.replace(/\$\{(?:[^{}]|\{[^}]*\})*\}/g, "'__PLACEHOLDER__'")
stripTemplateLiteralInterpolations(q) == StripFrom(q, 1)

\* /\bKW\b/i matches somewhere in t
HasWholeWord(t, kw) ==
    \E i \in 1..Len(t) :
        MatchesAt(t, i, kw) /\ ~IsWordAt(t, i - 1) /\ ~IsWordAt(t, i + Len(kw))

\* Where /\bFROM\s+(\w+)/i matches: the indices of the F of each candidate
FromMatchStarts(t) ==
    {i \in 1..Len(t) :
        /\ MatchesAt(t, i, KwFrom)
        /\ ~IsWordAt(t, i - 1)
        /\ IsSpaceAt(t, i + 4)
        /\ IsWordAt(t, SkipSpace(t, i + 4))}

\* t.match(/\bFROM\s+(\w+)/i): capture 1 of the leftmost match, or Absent
FromMatch(t) ==
    IF FromMatchStarts(t) = {} THEN Absent
    ELSE LET i == CHOOSE i \in FromMatchStarts(t) : \A j \in FromMatchStarts(t) : i <= j
             a == SkipSpace(t, i + 4)
         IN  Slice(t, a, SkipWord(t, a))

\* \s+FROM matches at index p (case-insensitive, no word boundary after KwFrom)
SpaceThenFromAt(t, p) == IsSpaceAt(t, p) /\ MatchesAt(t, SkipSpace(t, p), KwFrom)

\* /\bSELECT\s+(.+?)\s+FROM/is tried at the S at index i: capture 1, or Absent.
\* \s+ first takes the whole run of whitespace and the lazy capture then ends
\* at the first whitespace followed by FROM; failing that, \s+ gives characters
\* back and the capture starts inside the run of whitespace.
SelectMatchAt(t, i) ==
    IF ~(MatchesAt(t, i, KwSelect) /\ ~IsWordAt(t, i - 1) /\ IsSpaceAt(t, i + 6))
    THEN Absent
    ELSE LET a == SkipSpace(t, i + 6)
             \* capture starts s (i + 7 <= s <= a), ends before p (p > s)
             ends(s) == {p \in (s + 1)..Len(t) : SpaceThenFromAt(t, p)}
             starts == {s \in (i + 7)..a : s <= Len(t) /\ ends(s) # {}}
         IN  IF starts = {} THEN Absent
             ELSE LET s == CHOOSE s \in starts : \A s2 \in starts : s >= s2
                      p == CHOOSE p \in ends(s) : \A p2 \in ends(s) : p <= p2
                  IN  Slice(t, s, p)

\* t.match(/\bSELECT\s+(.+?)\s+FROM/is): capture 1 of the leftmost match, or Absent
SelectMatch(t) ==
    LET starts == {i \in 1..Len(t) : SelectMatchAt(t, i) # Absent}
    IN  IF starts = {} THEN Absent
        ELSE SelectMatchAt(t, CHOOSE i \in starts : \A j \in starts : i <= j)

\* (\s+ORDER\s+BY|\s+LIMIT|$) matches at index p
WhereEndAt(t, p) ==
    \/ p = Len(t) + 1
    \/ /\ IsSpaceAt(t, p)
       /\ LET k == SkipSpace(t, p)
          IN  \/ MatchesAt(t, k, KwLimit)
              \/ /\ MatchesAt(t, k, KwOrder)
                 /\ IsSpaceAt(t, k + 5)
                 /\ MatchesAt(t, SkipSpace(t, k + 5), KwBy)

\* /\bWHERE\s+(.+?)(\s+ORDER\s+BY|\s+LIMIT|$)/is tried at the W at index i
WhereMatchAt(t, i) ==
    IF ~(MatchesAt(t, i, KwWhere) /\ ~IsWordAt(t, i - 1) /\ IsSpaceAt(t, i + 5))
    THEN Absent
    ELSE LET a == SkipSpace(t, i + 5)
             ends(s) == {p \in (s + 1)..(Len(t) + 1) : WhereEndAt(t, p)}
             starts == {s \in (i + 6)..a : s <= Len(t) /\ ends(s) # {}}
         IN  IF starts = {} THEN Absent
             ELSE LET s == CHOOSE s \in starts : \A s2 \in starts : s >= s2
                      p == CHOOSE p \in ends(s) : \A p2 \in ends(s) : p <= p2
                  IN  Slice(t, s, p)

WhereMatch(t) ==
    LET starts == {i \in 1..Len(t) : WhereMatchAt(t, i) # Absent}
    IN  IF starts = {} THEN Absent
        ELSE WhereMatchAt(t, CHOOSE i \in starts : \A j \in starts : i <= j)

\* /[a-z_][a-z0-9_]*\.[a-z_][a-z0-9_]*/i matches at index i: the index after the
\* match, or 0.  The first identifier is taken whole: the dot cannot be matched
\* inside it.
FieldRegexEnd(t, i) ==
    IF i > Len(t) \/ t[i] \notin IdentStartChars THEN 0
    ELSE LET d == SkipWord(t, i)
         IN  IF d + 1 <= Len(t) /\ t[d] = "." /\ t[d + 1] \in IdentStartChars
             THEN SkipWord(t, d + 1)
             ELSE 0

RECURSIVE FieldRegexFrom(_, _)
\* whereClause.match(/([a-z_][a-z0-9_]*\.[a-z_][a-z0-9_]*)/gi): the matches from
\* index i on, each the leftmost one at or after the end of the one before
FieldRegexFrom(t, i) ==
    LET matches == {k \in i..Len(t) : FieldRegexEnd(t, k) > 0}
    IN  IF matches = {} THEN <<>>
        ELSE LET k == CHOOSE k \in matches : \A m \in matches : k <= m
             IN  <<Slice(t, k, FieldRegexEnd(t, k))>> \o FieldRegexFrom(t, FieldRegexEnd(t, k))

FieldRegexMatches(t) == FieldRegexFrom(t, 1)

\* t.indexOf(sub): 0-based index of the first occurrence, -1 when there is none
indexOf(t, sub) ==
    LET hits == {i \in 1..(Len(t) - Len(sub) + 1) : SubSeq(t, i, i + Len(sub) - 1) = sub}
    IN  IF hits = {} THEN -1
        ELSE (CHOOSE i \in hits : \A j \in hits : i <= j) - 1

\* lines[lineIndex] || ''
LineAt(lines, lineIndex) ==
    IF lineIndex >= 0 /\ lineIndex < Len(lines) THEN lines[lineIndex + 1] ELSE <<>>

\* Index (0-based) of the first line after the keyword's line, or that line
\* itself, that contains field; 0 when there is none
findFieldLine(lines, field, afterKeyword) ==
    LET keywordLines == {i \in 1..Len(lines) : HasWholeWord(lines[i], afterKeyword)}
        hits == {i \in 1..Len(lines) :
                    /\ \E k \in keywordLines : k <= i
                    /\ indexOf(lines[i], field) >= 0}
    IN  IF hits = {} THEN 0
        ELSE (CHOOSE i \in hits : \A j \in hits : i <= j) - 1

MissingClauseError(kind, cleanedQuery) ==
    [type |-> kind, line |-> 0, column |-> 0, length |-> Len(cleanedQuery),
     field |-> Absent, resource |-> Absent, suggestion |-> Absent]

\* Fault: the error does not say which identifier it is about
InvalidResourceError_NoField(lines, resourceName, availableResources) ==
    [type |-> "invalid_resource", line |-> 0, column |-> 0,
     length |-> Len(resourceName), field |-> Absent, resource |-> Absent,
     suggestion |-> findClosestMatch(resourceName, availableResources)]

InvalidResourceError(lines, resourceName, availableResources) ==
    LET fromLines == {i \in 1..Len(lines) : HasWholeWord(lines[i], KwFrom)}
        lineIndex == IF fromLines = {} THEN -1
                     ELSE (CHOOSE i \in fromLines : \A j \in fromLines : i <= j) - 1
        line == LineAt(lines, lineIndex)
    IN  [type |-> "invalid_resource",
         line |-> lineIndex,
         column |-> indexOf(toLowerCase(line), toLowerCase(KwFrom)) + 5,
         length |-> Len(resourceName),
         field |-> resourceName,
         resource |-> Absent,
         suggestion |-> findClosestMatch(resourceName, availableResources)]

InvalidFieldError(lines, field, afterKeyword, resourceName, validFieldDescriptions) ==
    LET lineIndex == findFieldLine(lines, field, afterKeyword)
        column == indexOf(LineAt(lines, lineIndex), field)
    IN  [type |-> "invalid_field",
         line |-> lineIndex,
         column |-> IF column >= 0 THEN column ELSE 0,
         length |-> Len(field),
         field |-> field,
         resource |-> resourceName,
         suggestion |-> findClosestMatch(field, validFieldDescriptions)]

\* selectMatch[1].split(',').map((f) => f.trim()).filter((f) => f.length > 0)
SelectFields(capture) ==
    LET parts == split(capture, ",")
        trimmed == [i \in 1..Len(parts) |-> trim(parts[i])]
    IN  SelectSeq(trimmed, LAMBDA f : Len(f) > 0)

RECURSIVE FieldErrors(_, _, _, _, _)
\* The loop over the referenced fields: one error per field that is not valid
FieldErrors(fieldList, lines, afterKeyword, resourceName, validFieldDescriptions) ==
    IF fieldList = <<>> THEN <<>>
    ELSE LET field == Head(fieldList)
             rest == FieldErrors(Tail(fieldList), lines, afterKeyword, resourceName,
                                 validFieldDescriptions)
         IN  IF ~includes(validFieldDescriptions, field)
             THEN <<InvalidFieldError(lines, field, afterKeyword, resourceName,
                                      validFieldDescriptions)>> \o rest
             ELSE rest

\* "Validate fields in SELECT clause": the errors that block appends
SelectClauseErrors(cleanedQuery, lines, resourceName) ==
    LET selectMatch == SelectMatch(cleanedQuery)
    IN  IF selectMatch = Absent THEN <<>>
        ELSE FieldErrors(SelectFields(selectMatch), lines, KwSelect, resourceName,
                         Descriptions(getFieldsForResource(resourceName)))

\* "Validate fields in WHERE clause": the errors that block appends
WhereClauseErrors(cleanedQuery, lines, resourceName) ==
    LET whereMatch == WhereMatch(cleanedQuery)
    IN  IF whereMatch = Absent THEN <<>>
        ELSE FieldErrors(FieldRegexMatches(whereMatch), lines, KwWhere, resourceName,
                         Descriptions(getFieldsForResource(resourceName)))

\* Fault: the WHERE block runs before the SELECT block
FieldChecks_WhereFirst(errors, cleanedQuery, lines, resourceName) ==
    errors \o WhereClauseErrors(cleanedQuery, lines, resourceName)
           \o SelectClauseErrors(cleanedQuery, lines, resourceName)

\* The two field blocks run one after the other on the same error list
FieldChecks(errors, cleanedQuery, lines, resourceName) ==
    errors \o SelectClauseErrors(cleanedQuery, lines, resourceName)
           \o WhereClauseErrors(cleanedQuery, lines, resourceName)

\* return { valid: errors.length === 0, errors }
ReturnByLength(errors) == [valid |-> Len(errors) = 0, errors |-> errors]

\* Fault: an early return that reports success
ReturnInvalid_Valid(errors) == [valid |-> TRUE, errors |-> errors]

\* return { valid: false, errors }
ReturnInvalid(errors) == [valid |-> FALSE, errors |-> errors]

\* The SELECT keyword check: the error list after it
CheckSelect(cleanedQuery) ==
    IF ~HasWholeWord(cleanedQuery, KwSelect)
    THEN <<MissingClauseError("missing_select", cleanedQuery)>>
    ELSE <<>>

\* Fault: the field checks still run after an unknown resource was reported
CheckResource_GoesOn(errors, cleanedQuery, lines, resourceName) ==
    LET availableResources == getResourceNames
    IN  IF ~includes(availableResources, resourceName)
        THEN ReturnInvalid(FieldChecks(
                 Append(errors, InvalidResourceError(lines, resourceName, availableResources)),
                 cleanedQuery, lines, resourceName))
        ELSE ReturnByLength(FieldChecks(errors, cleanedQuery, lines, resourceName))

\* "Validate resource name", reached with the resource name of the FROM clause
CheckResource(errors, cleanedQuery, lines, resourceName) ==
    LET availableResources == getResourceNames
    IN  IF ~includes(availableResources, resourceName)
        THEN ReturnInvalid(Append(errors,
                 InvalidResourceError(lines, resourceName, availableResources)))
        ELSE ReturnByLength(FieldChecks(errors, cleanedQuery, lines, resourceName))

validateQuery(q) ==
    LET cleanedQuery == stripTemplateLiteralInterpolations(q)
        lines == split(q, "\n")
        errors == CheckSelect(cleanedQuery)
    IN  IF ~HasWholeWord(cleanedQuery, KwFrom)
        THEN ReturnByLength(Append(errors, MissingClauseError("missing_from", cleanedQuery)))
        ELSE IF FromMatch(cleanedQuery) = Absent
        THEN ReturnInvalid(Append(errors, MissingClauseError("invalid_syntax", cleanedQuery)))
        ELSE CheckResource(errors, cleanedQuery, lines, FromMatch(cleanedQuery))

----------------------------------------------------------------------------
(* Schema registry, the variant that takes the version as an argument *)

getFieldsForResourceIn(resourceName, v) ==
    LET fieldsData == versionSchemas[v]
    IN  IF ~HasKey(fieldsData, resourceName) THEN <<>>
        ELSE FlattenedFields(Lookup(fieldsData, resourceName))

getFieldsForResourcePrefixIn(fromResource, resourcePrefix, v) ==
    LET fieldsData == versionSchemas[v]
    IN  IF ~HasKey(fieldsData, fromResource) THEN <<>>
        ELSE LET groups == Lookup(fieldsData, fromResource).fields
                 hits == {i \in 1..Len(groups) : groups[i].prefix = resourcePrefix}
             IN  IF hits = {} THEN <<>>
                 ELSE GroupFields(groups[CHOOSE i \in hits : TRUE])

getResourceNamesIn(v) ==
    SortStrings([i \in 1..Len(versionSchemas[v]) |-> versionSchemas[v][i].name])

GAQL_KEYWORDS ==
    << <<"S","E","L","E","C","T">>,
       <<"F","R","O","M">>,
       <<"W","H","E","R","E">>,
       <<"O","R","D","E","R"," ","B","Y">>,
       <<"L","I","M","I","T">>,
       <<"A","N","D">>,
       <<"O","R">>,
       <<"N","O","T">>,
       <<"I","N">>,
       <<"B","E","T","W","E","E","N">>,
       <<"L","I","K","E">>,
       <<"I","S"," ","N","U","L","L">>,
       <<"I","S"," ","N","O","T"," ","N","U","L","L">>,
       <<"A","S","C">>,
       <<"D","E","S","C">>,
       <<"D","U","R","I","N","G">>,
       <<"Y","E","S","T","E","R","D","A","Y">>,
       <<"T","O","D","A","Y">>,
       <<"L","A","S","T","_","7","_","D","A","Y","S">>,
       <<"L","A","S","T","_","1","4","_","D","A","Y","S">>,
       <<"L","A","S","T","_","3","0","_","D","A","Y","S">>,
       <<"T","H","I","S","_","M","O","N","T","H">>,
       <<"L","A","S","T","_","M","O","N","T","H">>,
       <<"T","H","I","S","_","W","E","E","K","_","S","U","N","_","T","O","D","A","Y">>,
       <<"T","H","I","S","_","W","E","E","K","_","M","O","N","_","T","O","D","A","Y">>,
       <<"L","A","S","T","_","W","E","E","K","_","S","U","N","_","S","A","T">>,
       <<"L","A","S","T","_","W","E","E","K","_","M","O","N","_","S","U","N">> >>

STATUS_VALUES ==
    << <<"E","N","A","B","L","E","D">>,
       <<"P","A","U","S","E","D">>,
       <<"R","E","M","O","V","E","D">>,
       <<"U","N","K","N","O","W","N">>,
       <<"U","N","S","P","E","C","I","F","I","E","D">> >>

OPERATORS ==
    << <<"=">>,
       <<"!","=">>,
       <<">">>,
       <<"<">>,
       <<">","=">>,
       <<"<","=">>,
       <<"I","N">>,
       <<"N","O","T"," ","I","N">>,
       <<"L","I","K","E">>,
       <<"N","O","T"," ","L","I","K","E">> >>

----------------------------------------------------------------------------
(* Completion engine *)

\* String.prototype.substring(start, end): both ends clamped to the text and
\* swapped when out of order; 0-based, end-exclusive
substring(t, start, end) ==
    LET clamp(x) == IF x < 0 THEN 0 ELSE IF x > Len(t) THEN Len(t) ELSE x
        a == clamp(start)
        b == clamp(end)
    IN  IF a <= b THEN Slice(t, a + 1, b + 1) ELSE Slice(t, b + 1, a + 1)

RECURSIVE Join(_, _)
\* Array.prototype.join(sep)
Join(parts, sep) ==
    IF parts = <<>> THEN <<>>
    ELSE IF Len(parts) = 1 THEN parts[1]
    ELSE parts[1] \o sep \o Join(Tail(parts), sep)

\* /KW\s+\w*$/i: the literal, whitespace, then word characters up to the end
EndsWithLiteralThenWord(t, kw) ==
    \E i \in 1..Len(t) :
        /\ MatchesAt(t, i, kw)
        /\ IsSpaceAt(t, i + Len(kw))
        /\ SkipWord(t, SkipSpace(t, i + Len(kw))) = Len(t) + 1

\* /,\s*$/
EndsWithComma(t) ==
    \E i \in 1..Len(t) : t[i] = "," /\ SkipSpace(t, i + 1) = Len(t) + 1

\* The source of the alternation the operator rule builds: OPERATORS joined by
\* "|" and then escaped, the bars included, so that the group holds one literal
OperatorLiteral == Join(OPERATORS, <<"|">>)

\* /WHERE\s+[a-z_][a-z0-9_]*\.[a-z_][a-z0-9_]*\s+\w*$/i
EndsWithWhereFieldThenWord(t) ==
    \E i \in 1..Len(t) :
        /\ MatchesAt(t, i, KwWhere)
        /\ IsSpaceAt(t, i + 5)
        /\ LET a == SkipSpace(t, i + 5)
               e == FieldRegexEnd(t, a)
           IN  /\ e > 0
               /\ IsSpaceAt(t, e)
               /\ SkipWord(t, SkipSpace(t, e)) = Len(t) + 1

\* [^FROM] under the i flag
NotFromChars(c) == ToUpperChar(c) \notin {"F", "R", "O", "M"}

\* /SELECT\s+[^FROM]*$/i
EndsWithSelectThenNoFromChar(t) ==
    \E i \in 1..Len(t) :
        /\ MatchesAt(t, i, KwSelect)
        /\ IsSpaceAt(t, i + 6)
        /\ \A k \in (i + 7)..Len(t) : NotFromChars(t[k])

\* /FROM/i.test(t)
ContainsFrom(t) == \E i \in 1..Len(t) : MatchesAt(t, i, KwFrom)

\* The rules of determineContext, tried in order on the trimmed text before the
\* cursor; ruled is the text the last rule looks for FROM in
ContextOf(trimmed, ruled) ==
    IF EndsWithLiteralThenWord(trimmed, KwWhere) THEN "where_field"
    ELSE IF EndsWithComma(trimmed) THEN "select_fields"
    ELSE IF EndsWithLiteralThenWord(trimmed, KwFrom) THEN "from_clause"
    ELSE IF EndsWithLiteralThenWord(trimmed, OperatorLiteral) THEN "where_value"
    ELSE IF EndsWithWhereFieldThenWord(trimmed) THEN "operator"
    ELSE IF EndsWithSelectThenNoFromChar(trimmed) /\ ~ContainsFrom(ruled) THEN "select_fields"
    ELSE "keyword"

\* Fault: the last rule looks for FROM in the whole query
determineContext_WholeQuery(q, pos) ==
    ContextOf(trim(substring(q, 0, pos)), q)

determineContext(q, pos) ==
    ContextOf(trim(substring(q, 0, pos)), trim(substring(q, 0, pos)))

\* s is identifier(.identifier)*
IsDottedPath(s) ==
    LET segments == split(s, ".")
    IN  /\ s # <<>>
        /\ \A k \in 1..Len(segments) :
              /\ segments[k] # <<>>
              /\ segments[k][1] \in IdentStartChars
              /\ \A j \in 1..Len(segments[k]) : segments[k][j] \in WordChars

\* beforeCursor.match(/([a-z_][a-z0-9_]*(?:\.[a-z_][a-z0-9_]*)*)$/i): capture 1
\* of the leftmost match, '' when there is none
TypedPath(beforeCursor) ==
    LET starts == {i \in 1..Len(beforeCursor) :
                      IsDottedPath(Slice(beforeCursor, i, Len(beforeCursor) + 1))}
    IN  IF starts = {} THEN <<>>
        ELSE Slice(beforeCursor, CHOOSE i \in starts : \A j \in starts : i <= j,
                   Len(beforeCursor) + 1)

\* String.prototype.startsWith
startsWith(t, head) == Len(head) <= Len(t) /\ SubSeq(t, 1, Len(head)) = head

\* The next segment of a field's qualified name beyond the typed path
NextSegment(field, typedPath) ==
    LET remaining == Slice(field.description, Len(typedPath) + 1, Len(field.description) + 1)
        nextDot == indexOf(remaining, <<".">>)
    IN  IF nextDot > 0 THEN Slice(remaining, 1, nextDot + 1) ELSE remaining

RECURSIVE NextSegmentFields(_, _, _)
\* The values of the nextSegments map: the first field of each next segment, in
\* order of first appearance; seen holds the keys set so far
NextSegmentFields(matchingFields, typedPath, seen) ==
    IF matchingFields = <<>> THEN <<>>
    ELSE LET field == Head(matchingFields)
             nextSegment == NextSegment(field, typedPath)
         IN  IF nextSegment # <<>> /\ nextSegment \notin seen
             THEN <<field>> \o NextSegmentFields(Tail(matchingFields), typedPath,
                                                seen \cup {nextSegment})
             ELSE NextSegmentFields(Tail(matchingFields), typedPath, seen)

\* fieldToCompletionItem
fieldToCompletionItem(field) == [label |-> field.description, type |-> "field"]

ItemsOf(labels, type) == [i \in 1..Len(labels) |-> [label |-> labels[i], type |-> type]]

getFieldSuggestions(resource, typedPath, v) ==
    LET allFields == getFieldsForResourceIn(resource, v)
    IN  IF typedPath = <<>> \/ ~includes(typedPath, ".")
        THEN [i \in 1..Len(allFields) |-> fieldToCompletionItem(allFields[i])]
        ELSE LET segments == split(typedPath, ".")
                 prefix == Join(SubSeq(segments, 1, Len(segments) - 1), <<".">>)
                 prefixFields == IF prefix # <<>>
                                 THEN getFieldsForResourcePrefixIn(resource, prefix, v)
                                 ELSE allFields
                 matchingFields ==
                     SelectSeq(prefixFields,
                               LAMBDA f : startsWith(f.description, toLowerCase(typedPath)))
                 chosen == NextSegmentFields(matchingFields, typedPath, {})
             IN  [i \in 1..Len(chosen) |-> fieldToCompletionItem(chosen[i])]

\* Fault: the resource is looked for in the text before the cursor only
getCompletions_BeforeCursor(q, pos, v) ==
    LET ctx == determineContext(q, pos)
        beforeCursor == substring(q, 0, pos)
        plain(items) == [context |-> ctx, resource |-> Absent, prefix |-> Absent,
                         suggestions |-> items]
    IN  CASE ctx = "keyword" -> plain(ItemsOf(GAQL_KEYWORDS, "keyword"))
          [] ctx = "from_clause" -> plain(ItemsOf(getResourceNamesIn(v), "resource"))
          [] ctx = "operator" -> plain(ItemsOf(OPERATORS, "operator"))
          [] ctx = "where_value" -> plain(ItemsOf(STATUS_VALUES, "value"))
          [] ctx \in {"select_fields", "where_field"} ->
                IF FromMatch(beforeCursor) = Absent THEN plain(<<>>)
                ELSE [context |-> ctx,
                      resource |-> FromMatch(beforeCursor),
                      prefix |-> TypedPath(beforeCursor),
                      suggestions |-> getFieldSuggestions(FromMatch(beforeCursor),
                                                          TypedPath(beforeCursor), v)]

getCompletions(q, pos, v) ==
    LET ctx == determineContext(q, pos)
        beforeCursor == substring(q, 0, pos)
        plain(items) == [context |-> ctx, resource |-> Absent, prefix |-> Absent,
                         suggestions |-> items]
    IN  CASE ctx = "keyword" -> plain(ItemsOf(GAQL_KEYWORDS, "keyword"))
          [] ctx = "from_clause" -> plain(ItemsOf(getResourceNamesIn(v), "resource"))
          [] ctx = "operator" -> plain(ItemsOf(OPERATORS, "operator"))
          [] ctx = "where_value" -> plain(ItemsOf(STATUS_VALUES, "value"))
          [] ctx \in {"select_fields", "where_field"} ->
                IF FromMatch(q) = Absent THEN plain(<<>>)
                ELSE [context |-> ctx,
                      resource |-> FromMatch(q),
                      prefix |-> TypedPath(beforeCursor),
                      suggestions |-> getFieldSuggestions(FromMatch(q),
                                                          TypedPath(beforeCursor), v)]

----------------------------------------------------------------------------
(* Schema registry on any artifact, resource name and version identifier:  *)
(* what a lookup returns, or that it raises. A catalog entry carries the   *)
(* set of the keys it has; a collection whose key is missing is undefined. *)

EntryKeys == {"fields", "metrics", "segments"}

\* An entry of the artifact that has only the keys in keys
EntryWith(entry, keys) ==
    [name |-> entry.name, keys |-> keys, fields |-> entry.fields,
     metrics |-> entry.metrics, segments |-> entry.segments]

\* The artifacts, the entries of resource ca having only the keys in keys
LoadedSchemas(keys) ==
    [v \in SupportedApiVersions |->
        [i \in 1..Len(versionSchemas[v]) |->
            EntryWith(versionSchemas[v][i],
                      IF versionSchemas[v][i].name = <<"c","a">> THEN keys ELSE EntryKeys)]]

\* A property name that every object inherits from Object.prototype
InheritedNames == { <<"c","o","n","s","t","r","u","c","t","o","r">> }

\* fieldsData[resourceName] is truthy: an own key, or an inherited property
Truthy(fieldsData, resourceName) ==
    HasKey(fieldsData, resourceName) \/ resourceName \in InheritedNames

\* fieldsData[resourceName] when truthy; an inherited property is a function
\* object, which has none of the three keys
Get(fieldsData, resourceName) ==
    IF HasKey(fieldsData, resourceName) THEN Lookup(fieldsData, resourceName)
    ELSE [name |-> resourceName, keys |-> {}, fields |-> <<>>, metrics |-> <<>>,
          segments |-> <<>>]

\* How a call ends
Raised == [kind |-> "raised", value |-> <<>>]
ReturnsList(list) == [kind |-> "list", value |-> list]
ReturnsNull == [kind |-> "null", value |-> <<>>]
ReturnsInfo(info) == [kind |-> "info", value |-> info]

\* getFieldsForResource(resourceName, version): versionSchemas[version] is
\* undefined for an unknown version and reading a property of it raises, as
\* does Object.entries of an undefined collection
FieldsForResource(schemas, resourceName, v) ==
    IF v \notin DOMAIN schemas THEN Raised
    ELSE IF ~Truthy(schemas[v], resourceName) THEN ReturnsList(<<>>)
    ELSE LET data == Get(schemas[v], resourceName)
         IN  IF "fields" \notin data.keys THEN Raised
             ELSE IF "metrics" \notin data.keys THEN Raised
             ELSE IF "segments" \notin data.keys THEN Raised
             ELSE ReturnsList(FlattenedFields(data))

\* getFieldsForResource(resourceName) of the variant that reads the
\* module-level version
FieldsForResourceCurrent(schemas, resourceName) ==
    IF currentApiVersion \notin DOMAIN schemas THEN Raised
    ELSE IF ~Truthy(schemas[currentApiVersion], resourceName) THEN ReturnsList(<<>>)
    ELSE LET data == Get(schemas[currentApiVersion], resourceName)
         IN  IF "fields" \notin data.keys THEN ReturnsList(<<>>)
             ELSE IF "metrics" \notin data.keys THEN Raised
             ELSE IF "segments" \notin data.keys THEN Raised
             ELSE ReturnsList(FlattenedFields(data))

\* getFieldsForResourcePrefix(fromResource, resourcePrefix, version)
FieldsForResourcePrefix(schemas, fromResource, resourcePrefix, v) ==
    IF v \notin DOMAIN schemas THEN Raised
    ELSE IF ~Truthy(schemas[v], fromResource) THEN ReturnsList(<<>>)
    ELSE LET data == Get(schemas[v], fromResource)
             hits == {i \in 1..Len(data.fields) : data.fields[i].prefix = resourcePrefix}
         IN  IF "fields" \notin data.keys THEN ReturnsList(<<>>)
             ELSE IF hits = {} THEN ReturnsList(<<>>)
             ELSE ReturnsList(GroupFields(data.fields[CHOOSE i \in hits : TRUE]))

\* getMetricsForResource(resourceName, version)
MetricsForResource(schemas, resourceName, v) ==
    IF v \notin DOMAIN schemas THEN Raised
    ELSE IF ~Truthy(schemas[v], resourceName) THEN ReturnsList(<<>>)
    ELSE LET data == Get(schemas[v], resourceName)
         IN  IF "metrics" \notin data.keys THEN ReturnsList(<<>>)
             ELSE ReturnsList(MetricFields(data))

\* getSegmentsForResource(resourceName, version)
SegmentsForResource(schemas, resourceName, v) ==
    IF v \notin DOMAIN schemas THEN Raised
    ELSE IF ~Truthy(schemas[v], resourceName) THEN ReturnsList(<<>>)
    ELSE LET data == Get(schemas[v], resourceName)
         IN  IF "segments" \notin data.keys THEN ReturnsList(<<>>)
             ELSE ReturnsList(SegmentFields(data))

\* getResourceNames(version): Object.keys of undefined raises
ResourceNames(schemas, v) ==
    IF v \notin DOMAIN schemas THEN Raised
    ELSE ReturnsList(SortStrings([i \in 1..Len(schemas[v]) |-> schemas[v][i].name]))

RECURSIVE FieldCount(_)
\* The number of fields over all attribution groups
FieldCount(groups) ==
    IF groups = <<>> THEN 0 ELSE Len(Head(groups).names) + FieldCount(Tail(groups))

\* getResourceInfo(resourceName, version)
ResourceInfo(schemas, resourceName, v) ==
    IF v \notin DOMAIN schemas THEN Raised
    ELSE IF ~Truthy(schemas[v], resourceName) THEN ReturnsNull
    ELSE LET data == Get(schemas[v], resourceName)
             has(key) == key \in data.keys
         IN  ReturnsInfo(
                 [name |-> resourceName,
                  fieldCount |-> IF has("fields") THEN FieldCount(data.fields) ELSE 0,
                  metricCount |-> IF has("metrics") THEN Len(data.metrics) ELSE 0,
                  segmentCount |-> IF has("segments") THEN Len(data.segments) ELSE 0,
                  attributedResources |->
                      IF has("fields")
                      THEN SortStrings([i \in 1..Len(data.fields) |-> data.fields[i].prefix])
                      ELSE <<>>])

----------------------------------------------------------------------------
(* The texts the validator is called with: a query is put together from a   *)
(* SELECT keyword, a list of selected entries, a FROM keyword, a resource   *)
(* and a WHERE clause, each drawn from a few well-formed and ill-formed     *)
(* spellings.                                                              *)

\* How many entries a SELECT list of the model holds at most
MaxSelectFields == 2

SelectKeywords ==
    { <<"S","E","L","E","C","T"," ">>,
      <<"s","e","l","e","c","t","\n">>,
      <<>>,
      <<"S","E","L","E","C","T","E","D"," ">>,
      <<"$","{","S","E","L","E","C","T","}"," ">> }

SelectEntries ==
    { <<"c","a",".","i","d">>,
      <<"c","a",".","s","t">>,
      <<"c","a",".","z","z">>,
      <<"$","{","f","}">>,
      <<"c","a",".","i","d"," ","f","r","o","m","x">>,
      <<>> }

FromKeywords ==
    { <<" ","F","R","O","M"," ">>,
      <<"\n","f","r","o","m"," ">>,
      <<" ","F","R","O","M">>,
      <<>> }

ResourceTexts ==
    { <<"c","a">>, <<"a","g">>, <<"z","z">>, <<"$","{","r","}">>, <<>> }

WhereTexts ==
    { <<>>,
      <<" ","W","H","E","R","E"," ","c","a",".","i","d"," ","="," ","1">>,
      <<" ","W","H","E","R","E"," ","c","a",".","z","z"," ","="," ","1"," ","A","N","D"," ","a","g",".","i","d"," ",">"," ","2">>,
      <<"\n","W","H","E","R","E"," ","c","a",".","n","m"," ","="," ","'","$","{","a",".","b","}","'">>,
      <<" ","W","H","E","R","E"," ","c","a",".","i","d"," ","="," ","$","{","{","{","}","}",".","q",".","r","}">>,
      <<" ","W","H","E","R","E"," ","c","a",".","i","d"," ","="," ","1"," ","O","R","D","E","R"," ","B","Y"," ","c","a",".","z","z">>,
      <<" ","W","H","E","R","E"," ","c","a",".","n","s",".","t","g"," ","="," ","1"," ","L","I","M","I","T"," ","5">> }

RECURSIVE JoinComma(_)
\* The entries of a SELECT list, separated by ", "
JoinComma(entries) ==
    IF entries = <<>> THEN <<>>
    ELSE IF Len(entries) = 1 THEN entries[1]
    ELSE entries[1] \o <<",", " ">> \o JoinComma(Tail(entries))

\* The SELECT lists of at most n entries
SelectLists(n) ==
    {JoinComma(l) : l \in UNION {[1..k -> SelectEntries] : k \in 0..n}}

\* Queries without a WHERE clause carry the longer lists, queries with one a list
\* of at most one entry
TemplateQueries ==
    {Cat(<<s, l, f, r, w>>) :
        s \in SelectKeywords, l \in SelectLists(MaxSelectFields), f \in FromKeywords,
        r \in ResourceTexts, w \in {<<>>}}
    \cup
    {Cat(<<s, l, f, r, w>>) :
        s \in SelectKeywords, l \in SelectLists(1), f \in FromKeywords,
        r \in ResourceTexts, w \in WhereTexts}

\* "SELECT " + F.qualifiedName + " FROM " + R
SelectOneFrom(qualifiedName, resourceName) ==
    Cat(<< <<"S","E","L","E","C","T"," ">>, qualifiedName,
           <<" ","F","R","O","M"," ">>, resourceName >>)

\* The one-field queries over every resource and field of every version
CatalogQueries ==
    UNION {
        {SelectOneFrom(f.description, data.name) : f \in Range(FlattenedFields(data))} :
        data \in UNION {Range(versionSchemas[v]) : v \in SupportedApiVersions} }

\* "SELECT " + F.qualifiedName + " FROM " + R + " WHERE " + F.qualifiedName + " = 1"
SelectOneFromWhere(qualifiedName, resourceName) ==
    Cat(<< SelectOneFrom(qualifiedName, resourceName),
           <<" ","W","H","E","R","E"," ">>, qualifiedName, <<" ","=", " ","1">> >>)

\* The same queries with the selected field compared in a WHERE clause
CatalogWhereQueries ==
    UNION {
        {SelectOneFromWhere(f.description, data.name) : f \in Range(FlattenedFields(data))} :
        data \in UNION {Range(versionSchemas[v]) : v \in SupportedApiVersions} }

Queries == TemplateQueries \cup CatalogQueries \cup CatalogWhereQueries

----------------------------------------------------------------------------
(* The validator as a state machine: callers set the module-level version  *)
(* and validate the text at hand.                                          *)

\* result before the first validateQuery call
NoResult == [valid |-> FALSE, errors |-> <<>>]

\* The variables the validator's specification leaves alone
IdleSuggest == input = <<>> /\ candidates = <<>> /\ suggestion = Absent
NoCompletion ==
    [context |-> "none", resource |-> Absent, prefix |-> Absent, suggestions |-> <<>>]
IdleContext ==
    position = 0 /\ version = "21" /\ context = "none" /\ completion = NoCompletion
NoCall == [op |-> "none", resource |-> <<>>, version |-> "21", prefix |-> <<>>]
NoOutcome == [kind |-> "none", value |-> <<>>]
IdleRegistry == catalog = LoadedSchemas(EntryKeys) /\ call = NoCall /\ outcome = NoOutcome
IdleBuilder == builders = <<>> /\ validators = <<>>
IdleEditor == documents = <<>> /\ settings = <<>> /\ diagnostics = <<>>

Init ==
    /\ IdleBuilder
    /\ IdleEditor
    /\ currentApiVersion = "21"
    /\ query \in Queries
    /\ result = NoResult
    /\ returned = FALSE
    /\ IdleSuggest
    /\ IdleContext
    /\ IdleRegistry

\* setApiVersion(version)
SetApiVersion(v) ==
    /\ currentApiVersion' = v
    /\ UNCHANGED <<builders, validators, documents, settings, diagnostics,
                   query, result, returned, input, candidates, suggestion, position,
                   version, context, completion,
                   catalog, call, outcome>>

\* validateQuery(query)
ValidateQuery ==
    /\ UNCHANGED <<builders, validators, documents, settings, diagnostics,
                   currentApiVersion, query, input, candidates, suggestion, position,
                   version, context, completion,
                   catalog, call, outcome>>
    /\ returned' = TRUE
    /\ result' = validateQuery(query)

Next ==
    \/ \E v \in SupportedApiVersions : SetApiVersion(v)
    \/ ValidateQuery

Spec == Init /\ [][Next]_vars

----------------------------------------------------------------------------
(* Properties of validateQuery.  The function takes the query alone and    *)
(* reads the version from currentApiVersion, so "the version of a call" is  *)
(* the value of currentApiVersion when the call is made.                   *)

ErrorTypes(errors) == [i \in 1..Len(errors) |-> errors[i].type]
ErrorFields(errors) == [i \in 1..Len(errors) |-> errors[i].field]
InvalidFieldErrors(errors) == SelectSeq(errors, LAMBDA e : e.type = "invalid_field")

\* The one-field queries "SELECT F FROM R" over the resources R and the fields,
\* metrics and segments F of the version in effect
FieldQueries ==
    {SelectOneFrom(getFieldsForResource(R)[k].description, R) :
        <<R, k>> \in {<<R, k>> \in Range(getResourceNames) \X (1..8) :
                         k <= Len(getFieldsForResource(R))}}

\* C1: for every version, every resource R of it and every field, metric or
\* segment F that getFieldsForResource lists for R, the call
\* validateQuery("SELECT " + F.qualifiedName + " FROM " + R) under that version
\* returns valid = true and no errors.
C1_FieldOfResourceIsValid ==
    [][(query \in CatalogQueries /\ ValidateQuery /\ query \in FieldQueries)
        => (result'.valid /\ result'.errors = <<>>)]_vars

\* A metric of version 19 and the nested field of version 21 have been validated
C1_Witness ==
    /\ returned
    /\ result.valid
    /\ \/ currentApiVersion = "19" /\ query = SelectOneFrom(<<"m","e","t","r","i","c","s",".","c","l">>, <<"c","a">>)
       \/ currentApiVersion = "21" /\ query = SelectOneFrom(<<"c","a",".","n","s",".","t","g">>, <<"c","a">>)

\* C2: in whatever validateQuery returns, on each of its return paths, valid is
\* true exactly when the error list is empty.
C2_ValidIffNoErrors ==
    returned => (result.valid <=> result.errors = <<>>)

\* The path that returns a literal valid: false has been taken
C2_Witness ==
    /\ returned
    /\ ~result.valid
    /\ Len(result.errors) = 1
    /\ result.errors[1].type = "invalid_syntax"

\* The identifier that follows the first whole-word FROM of t after whitespace,
\* Absent when t has no whole-word FROM or something else follows the first one
FirstFromIdentifier(t) ==
    LET starts == {i \in 1..Len(t) :
                      MatchesAt(t, i, KwFrom) /\ ~IsWordAt(t, i - 1) /\ ~IsWordAt(t, i + 4)}
    IN  IF starts = {} THEN Absent
        ELSE LET i == CHOOSE i \in starts : \A j \in starts : i <= j
                 a == SkipSpace(t, i + 4)
             IN  IF IsSpaceAt(t, i + 4) /\ IsWordAt(t, a)
                 THEN Slice(t, a, SkipWord(t, a))
                 ELSE Absent

\* The result is the single error INVALID_RESOURCE about the identifier after
\* the first FROM of t
OnlyInvalidResource(t, res) ==
    /\ Len(res.errors) = 1
    /\ res.errors[1].type = "invalid_resource"
    /\ res.errors[1].field = FirstFromIdentifier(t)

\* t has a whole-word SELECT and its first FROM is followed by an identifier
\* that is no resource of the version in effect
SelectFromUnknown(t) ==
    /\ HasWholeWord(t, KwSelect)
    /\ FirstFromIdentifier(t) # Absent
    /\ ~includes(getResourceNames, FirstFromIdentifier(t))

\* C3, as stated: for any query that contains a whole-word SELECT and whose first
\* FROM is followed by an identifier that is not a resource of the version,
\* validateQuery returns exactly one error, INVALID_RESOURCE, whose field is that
\* identifier.
C3_AsStated ==
    [][(ValidateQuery /\ SelectFromUnknown(query)) => OnlyInvalidResource(query, result')]_vars

\* C3, amended: the same, for the text that is left once every ${...} span has
\* been replaced by the placeholder literal: if that text contains a whole-word
\* SELECT and its first FROM is followed by an identifier that is not a resource
\* of the version, validateQuery returns exactly one error, INVALID_RESOURCE,
\* whose field is that identifier, whatever the query selects or filters on.
C3_UnknownResourceOnly ==
    [][(ValidateQuery /\ SelectFromUnknown(stripTemplateLiteralInterpolations(query)))
        => OnlyInvalidResource(stripTemplateLiteralInterpolations(query), result')]_vars

\* Under version 19, which has no resource ag, a query that selects and filters
\* on unknown fields FROM ag got the single error about ag
C3_Witness ==
    /\ returned
    /\ query = <<"S","E","L","E","C","T"," ","c","a",".","z","z"," ","F","R","O","M"," ","a","g"," ","W","H","E","R","E"," ","c","a",".","z","z"," ","="," ","1"," ","A","N","D"," ","a","g",".","i","d"," ",">"," ","2">>
    /\ ErrorTypes(result.errors) = <<"invalid_resource">>
    /\ result.errors[1].field = <<"a","g">>

\* C4: MISSING_FROM and INVALID_RESOURCE are terminal: in every result an error
\* of either kind is the last element of errors, and no INVALID_FIELD error
\* appears in the same result.
C4_TerminalErrors ==
    returned =>
        \A i \in 1..Len(result.errors) :
            result.errors[i].type \in {"missing_from", "invalid_resource"} =>
                /\ i = Len(result.errors)
                /\ \A j \in 1..Len(result.errors) : result.errors[j].type # "invalid_field"

\* A query with unknown fields in both clauses and an unknown resource ended on
\* INVALID_RESOURCE, after MISSING_SELECT
C4_Witness ==
    /\ returned
    /\ query = <<"S","E","L","E","C","T","E","D"," ","c","a",".","z","z"," ","F","R","O","M"," ","z","z"," ","W","H","E","R","E"," ","c","a",".","z","z"," ","="," ","1"," ","A","N","D"," ","a","g",".","i","d"," ",">"," ","2">>
    /\ ErrorTypes(result.errors) = <<"missing_select", "invalid_resource">>

\* Where a kind of error stands in the order of discovery
TypeRank(type) ==
    CASE type = "missing_select" -> 1
      [] type \in {"missing_from", "invalid_syntax", "invalid_resource"} -> 2
      [] type = "invalid_field" -> 3

\* The entries of fieldList that are no qualified name of resourceName, in order
InvalidEntries(fieldList, resourceName) ==
    SelectSeq(fieldList,
              LAMBDA f : ~includes(Descriptions(getFieldsForResource(resourceName)), f))

\* The fields the SELECT list of t names, then the references of its WHERE
\* clause, each left to right, that are no qualified name of the resource of t
InvalidReferences(t) ==
    LET R == FromMatch(t)
        selected == IF SelectMatch(t) = Absent THEN <<>> ELSE SelectFields(SelectMatch(t))
        filtered == IF WhereMatch(t) = Absent THEN <<>> ELSE FieldRegexMatches(WhereMatch(t))
    IN  InvalidEntries(selected, R) \o InvalidEntries(filtered, R)

\* C5: the errors of every result are in discovery order: MISSING_SELECT (if any)
\* first, then the one error about FROM or the resource (if any), then the
\* INVALID_FIELD errors of the SELECT entries left to right, then those of the
\* WHERE references left to right; and a query with neither a whole-word SELECT
\* nor a whole-word FROM yields exactly [MISSING_SELECT, MISSING_FROM].
C5_DiscoveryOrder ==
    [][ValidateQuery =>
        LET errors == result'.errors
            types == ErrorTypes(errors)
            cleanedQuery == stripTemplateLiteralInterpolations(query)
        IN  /\ \A i, j \in 1..Len(errors) :
                  i < j => /\ TypeRank(types[i]) <= TypeRank(types[j])
                           /\ TypeRank(types[i]) < 3 => TypeRank(types[i]) < TypeRank(types[j])
            /\ (\E i \in 1..Len(errors) : types[i] = "invalid_field")
                  => ErrorFields(InvalidFieldErrors(errors)) = InvalidReferences(cleanedQuery)
            /\ (~HasWholeWord(query, KwSelect) /\ ~HasWholeWord(query, KwFrom))
                  => types = <<"missing_select", "missing_from">>]_vars

\* An entry of the SELECT list that version 19 does not have was reported before
\* the two unknown references of the WHERE clause
C5_Witness ==
    /\ returned
    /\ query = <<"S","E","L","E","C","T"," ","c","a",".","s","t"," ","F","R","O","M"," ","c","a"," ","W","H","E","R","E"," ","c","a",".","z","z"," ","="," ","1"," ","A","N","D"," ","a","g",".","i","d"," ",">"," ","2">>
    /\ ErrorFields(result.errors) = << <<"c","a",".","s","t">>, <<"c","a",".","z","z">>, <<"a","g",".","i","d">> >>

\* "SELECT " + list + " FROM " + R
SelectListFrom(list, resourceName) ==
    Cat(<< <<"S","E","L","E","C","T"," ">>, list, <<" ","F","R","O","M"," ">>, resourceName >>)

\* C6: the SELECT check never short-circuits: for a query "SELECT <list> FROM R"
\* with R a resource of the version, validateQuery reports one INVALID_FIELD
\* error for each comma-separated, trimmed, non-empty entry of the list that is
\* not a qualified name of R, with multiplicity and in order, and none for the
\* entries that are; each such error has field = the entry and resource = R.
C6_EveryInvalidEntryReported ==
    [][ValidateQuery =>
        \A list \in SelectLists(MaxSelectFields) : \A R \in Range(getResourceNames) :
            query = SelectListFrom(list, R) =>
                LET reported == InvalidFieldErrors(result'.errors)
                IN  /\ ErrorFields(reported) = InvalidEntries(SelectFields(list), R)
                    /\ \A i \in 1..Len(reported) : reported[i].resource = R]_vars

RECURSIVE BalancedEnd(_, _, _)
\* The index of the brace that closes the span whose body starts at index j
\* with depth braces open, 0 when the text ends first
BalancedEnd(t, j, depth) ==
    IF j > Len(t) THEN 0
    ELSE IF t[j] = "{" THEN BalancedEnd(t, j + 1, depth + 1)
    ELSE IF t[j] = "}" THEN (IF depth = 1 THEN j ELSE BalancedEnd(t, j + 1, depth - 1))
    ELSE BalancedEnd(t, j + 1, depth)

RECURSIVE OutsideSpans(_, _)
\* The text from index i on with every ${...} span, braces balanced to any
\* depth, replaced by a blank
OutsideSpans(t, i) ==
    LET opens == {k \in i..(Len(t) - 1) :
                     t[k] = "$" /\ t[k + 1] = "{" /\ BalancedEnd(t, k + 2, 1) > 0}
    IN  IF opens = {} THEN Slice(t, i, Len(t) + 1)
        ELSE LET k == CHOOSE k \in opens : \A m \in opens : k <= m
             IN  Slice(t, i, k) \o <<" ">> \o OutsideSpans(t, BalancedEnd(t, k + 2, 1) + 1)

\* C7: a ${...} span never causes an INVALID_FIELD error, whatever the span
\* contains and in whichever clause it stands: every INVALID_FIELD error names
\* text that the query has outside its spans.
C7_SpansNeverInvalidField ==
    [][ValidateQuery =>
        \A i \in 1..Len(result'.errors) :
            result'.errors[i].type = "invalid_field" =>
                indexOf(OutsideSpans(query, 1), result'.errors[i].field) >= 0]_vars

\* C8: validateQuery has no hidden state: a call with the query of an earlier
\* call returns what the earlier call returned, whatever calls, setApiVersion
\* among them, were made in between.
C8_SameQuerySameResult ==
    [][(returned /\ ValidateQuery) => result' = result]_vars

----------------------------------------------------------------------------
(* findClosestMatch on its own: an input and a list of candidates, then    *)
(* the call.                                                               *)

\* How long an input, and how long a candidate list, the model draws
MaxInputLen == 3
MaxCandidates == 2

SuggestAlphabet == {"a", "B", "c"}

CandidateWords ==
    { <<>>, <<"a">>, <<"A","b">>, <<"b","c">>, <<"a","b","c">>, <<"c","a","b">>,
      <<"A","B","C","D">> }

Campain == <<"c","a","m","p","a","i","n">>
CampaignAdGroup == << <<"c","a","m","p","a","i","g","n">>, <<"a","d","_","g","r","o","u","p">> >>

SuggestInputs ==
    UNION {[1..n -> SuggestAlphabet] : n \in 0..MaxInputLen}

CandidateLists ==
    UNION {[1..n -> CandidateWords] : n \in 0..MaxCandidates}

\* The variables this specification leaves alone
IdleValidator == currentApiVersion = "21" /\ query = <<>> /\ result = NoResult

InitSuggest ==
    /\ IdleBuilder
    /\ IdleEditor
    /\ \/ input \in SuggestInputs /\ candidates \in CandidateLists
       \/ input = Campain /\ candidates = CampaignAdGroup
    /\ suggestion = Absent
    /\ returned = FALSE
    /\ IdleValidator
    /\ IdleContext
    /\ IdleRegistry

\* findClosestMatch(input, candidates)
FindClosestMatch ==
    /\ suggestion' = findClosestMatch(input, candidates)
    /\ returned' = TRUE
    /\ UNCHANGED <<builders, validators, documents, settings, diagnostics,
                   currentApiVersion, query, result, input, candidates, position,
                   version, context, completion,
                   catalog, call, outcome>>

NextSuggest == FindClosestMatch

SpecSuggest == InitSuggest /\ [][NextSuggest]_vars

RECURSIVE EditDistance(_, _)
\* The edit distance of two strings by its recurrence on their first characters
EditDistance(a, b) ==
    IF a = <<>> THEN Len(b)
    ELSE IF b = <<>> THEN Len(a)
    ELSE IF Head(a) = Head(b) THEN EditDistance(Tail(a), Tail(b))
    ELSE 1 + Min2(EditDistance(Tail(a), Tail(b)),
                  Min2(EditDistance(Tail(a), b), EditDistance(a, Tail(b))))

\* The distance of candidate k to the input, letter case aside
DistanceTo(inp, cands, k) == EditDistance(toLowerCase(inp), toLowerCase(cands[k]))

\* The first candidate at the least distance, when that distance is at most
\* floor(len(input) / 2); Absent otherwise and for an empty list
FirstClosest(inp, cands) ==
    IF cands = <<>> THEN Absent
    ELSE LET k == CHOOSE k \in 1..Len(cands) :
                      /\ \A m \in 1..Len(cands) : DistanceTo(inp, cands, k) <= DistanceTo(inp, cands, m)
                      /\ \A m \in 1..(k - 1) : DistanceTo(inp, cands, m) > DistanceTo(inp, cands, k)
         IN  IF DistanceTo(inp, cands, k) > Len(inp) \div 2 THEN Absent ELSE cands[k]

----------------------------------------------------------------------------
(* determineContext and getCompletions on their own: a text, a cursor that *)
(* may lie outside the text, a version, then the call.                     *)

\* How far outside the text, on either side, the model puts the cursor
Overshoot == 2

ContextTexts ==
    { <<>>,
      <<"S","E","L","E","C","T"," ","c","a",".","i","d">>,
      <<"S","E","L","E","C","T"," ","c","a",".","i","d"," ","F","R","O","M"," ","c","a"," ","W","H","E","R","E"," ","c","a",".","i","d"," ","I","N"," ","(","1",")">>,
      <<"S","E","L","E","C","T"," ","c","a",".","i","d"," ","F","R","O","M"," ","a","g">>,
      <<"S","E","L","E","C","T"," ","c","a",".","i","d",","," ","c","u","."," ","F","R","O","M"," ","c","a"," ","W","H","E","R","E"," ","c","a",".","n","m"," ","="," ","x">>,
      <<"s","e","l","e","c","t"," "," ","c","a",".","n","\n","f","r","o","m"," ","c","a">>,
      <<"S","E","L","E","C","T"," ","c","a",".","n","s",".","t">>,
      <<"S","E","L","E","C","T"," ","c","a",".","i","d"," ","F","R","O","M"," ","z","z"," ","W","H","E","R","E"," ">>,
      <<"F","R","O","M"," ","c","a"," ","W","H","E","R","E"," ","x"," ","=","|","!","=","|",">","|","<","|",">","=","|","<","=","|","I","N","|","N","O","T"," ","I","N","|","L","I","K","E","|","N","O","T"," ","L","I","K","E"," ","y">>,
      <<" ","S","E","L","E","C","T"," "," ">>,
      <<"S","E","L","E","C","T"," ","c","a","m","p","a","i","g","n",".","i","d">> }

InitContext ==
    /\ IdleBuilder
    /\ IdleEditor
    /\ query \in ContextTexts
    /\ position \in (0 - Overshoot)..(Len(query) + Overshoot)
    /\ version \in SupportedApiVersions
    /\ context = "none"
    /\ completion = NoCompletion
    /\ returned = FALSE
    /\ currentApiVersion = "21"
    /\ result = NoResult
    /\ IdleSuggest
    /\ IdleRegistry

\* determineContext(query, position)
DetermineContext ==
    /\ context' = determineContext(query, position)
    /\ returned' = TRUE
    /\ UNCHANGED <<builders, validators, documents, settings, diagnostics,
                   currentApiVersion, query, result, input, candidates, suggestion,
                   position, version, completion,
                   catalog, call, outcome>>

\* getCompletions(query, position, version), which calls determineContext
GetCompletions ==
    /\ context' = determineContext(query, position)
    /\ completion' = getCompletions(query, position, version)
    /\ returned' = TRUE
    /\ UNCHANGED <<builders, validators, documents, settings, diagnostics,
                   currentApiVersion, query, result, input, candidates, suggestion,
                   position, version,
                   catalog, call, outcome>>

NextContext ==
    \/ DetermineContext
    \/ GetCompletions

SpecContext == InitContext /\ [][NextContext]_vars

\* The first n characters of t: all of t when n exceeds its length, none when
\* n is negative
Prefix(t, n) ==
    IF n <= 0 THEN <<>> ELSE IF n >= Len(t) THEN t ELSE SubSeq(t, 1, n)

\* The cursor moved to the nearest position of the text
Clamped(t, n) == IF n < 0 THEN 0 ELSE IF n > Len(t) THEN Len(t) ELSE n

\* C10: determineContext(text, cursor) depends only on the characters of text
\* before the cursor: texts that agree on text[0:cursor] get the same context;
\* a negative cursor behaves like cursor 0 (context 'keyword'), a cursor past the
\* end like cursor = length of the text, and for every integer cursor both
\* determineContext and getCompletions return a regular result, that of the
\* cursor moved into the text.
C10_PrefixAndCursorRange ==
    returned =>
        /\ \A other \in ContextTexts :
              Prefix(other, position) = Prefix(query, position)
                  => determineContext(other, position) = context
        /\ position < 0 => context = "keyword"
        /\ context = determineContext(query, Clamped(query, position))
        /\ context \in {"keyword", "select_fields", "from_clause", "where_field",
                        "where_value", "operator"}
        /\ completion # NoCompletion =>
              /\ completion.context = context
              /\ completion = getCompletions(query, Clamped(query, position), version)

\* A cursor past the end of a text that other texts continue with a FROM
\* clause: getCompletions returned the field context of the whole text, with
\* no suggestions as the text names no resource
C10_Witness ==
    /\ returned
    /\ query = <<"S","E","L","E","C","T"," ","c","a",".","i","d">>
    /\ position = Len(query) + Overshoot
    /\ context = "select_fields"
    /\ completion.context = "select_fields"
    /\ completion.suggestions = <<>>

----------------------------------------------------------------------------
(* The rules of the classifier, one by one *)

\* query.substring(0, position)
BeforeCursor == substring(query, 0, position)

\* t ends with one of OPERATORS, whitespace and word characters
EndsWithOperatorThenToken(t) ==
    \E k \in 1..Len(OPERATORS) : EndsWithLiteralThenWord(t, OPERATORS[k])

\* t contains SELECT and no FROM after it
SelectWithoutFrom(t) ==
    \E i \in 1..Len(t) :
        /\ MatchesAt(t, i, KwSelect)
        /\ \A j \in (i + 1)..Len(t) : ~MatchesAt(t, j, KwFrom)

\* The resource names of version v as completion items, in sorted order
ResourceItems(v) == ItemsOf(getResourceNamesIn(v), "resource")

C12_WhereValue ==
    returned =>
        LET t == trim(BeforeCursor)
        IN  (/\ EndsWithOperatorThenToken(t)
             /\ ~EndsWithLiteralThenWord(t, KwWhere)
             /\ ~EndsWithComma(t)
             /\ ~EndsWithLiteralThenWord(t, KwFrom))
            => context = "where_value"

\* C13: when the text before the cursor contains SELECT and no FROM after it,
\* and none of the five earlier rules matches, determineContext returns
\* 'select_fields', as for 'SELECT campaign.' and 'SELECT campaign.id' with the
\* cursor at the end.
C13_SelectFields ==
    returned =>
        LET t == trim(BeforeCursor)
        IN  (/\ SelectWithoutFrom(t)
             /\ ~EndsWithLiteralThenWord(t, KwWhere)
             /\ ~EndsWithComma(t)
             /\ ~EndsWithLiteralThenWord(t, KwFrom)
             /\ ~EndsWithOperatorThenToken(t)
             /\ ~EndsWithWhereFieldThenWord(t))
            => context = "select_fields"

\* The identifier of the first place in t where FROM, not preceded by a word
\* character, is followed by whitespace and an identifier; Absent when there
\* is no such place
FirstFromResource(t) ==
    LET places == {i \in 1..Len(t) :
                      /\ MatchesAt(t, i, KwFrom)
                      /\ ~IsWordAt(t, i - 1)
                      /\ IsSpaceAt(t, i + 4)
                      /\ IsWordAt(t, SkipSpace(t, i + 4))}
    IN  IF places = {} THEN Absent
        ELSE LET i == CHOOSE i \in places : \A j \in places : i <= j
             IN  Slice(t, SkipSpace(t, i + 4), SkipWord(t, SkipSpace(t, i + 4)))

\* The flattened field list of a resource of version v as completion items
AllFieldItems(resource, v) ==
    ItemsOf(Descriptions(getFieldsForResourceIn(resource, v)), "field")

\* C14: in a select_fields or where_field context getCompletions takes the
\* resource from the first FROM <identifier> of the whole query text, after
\* the cursor included, while the context comes from the text before the
\* cursor; with no such FROM the suggestion list is empty, and with a typed
\* path without a dot it is the resource's full flattened field list.
C14_ResourceFromWholeText ==
    (/\ returned
     /\ completion # NoCompletion
     /\ context \in {"select_fields", "where_field"})
    => /\ completion.context = determineContext(BeforeCursor, Len(BeforeCursor))
       /\ FirstFromResource(query) = Absent =>
             completion.suggestions = <<>> /\ completion.resource = Absent
       /\ FirstFromResource(query) # Absent =>
             /\ completion.resource = FirstFromResource(query)
             /\ ~includes(TypedPath(BeforeCursor), ".") =>
                   completion.suggestions = AllFieldItems(FirstFromResource(query), version)

\* The cursor right after the comma of a SELECT list, the FROM clause after
\* the cursor: the seven fields of resource ca in version 21 were suggested
C14_Witness ==
    /\ returned
    /\ query = <<"S","E","L","E","C","T"," ","c","a",".","i","d",","," ","c","u","."," ","F","R","O","M"," ","c","a"," ","W","H","E","R","E"," ","c","a",".","n","m"," ","="," ","x">>
    /\ position = 13
    /\ version = "21"
    /\ context = "select_fields"
    /\ FromMatch(BeforeCursor) = Absent
    /\ completion.resource = <<"c","a">>
    /\ Len(completion.suggestions) = 7

\* The part of a qualified name after the first n characters, up to its next
\* dot; a dot in first place does not end it
RestUpToDot(name, n) ==
    LET rest == Slice(name, n + 1, Len(name) + 1)
        dots == {k \in 2..Len(rest) : rest[k] = "."}
    IN  IF dots = {} THEN rest
        ELSE Slice(rest, 1, CHOOSE k \in dots : \A j \in dots : k <= j)

RECURSIVE Distinct(_)
\* A list without its repetitions, in order of first appearance
Distinct(list) ==
    IF list = <<>> THEN <<>>
    ELSE LET front == Distinct(SubSeq(list, 1, Len(list) - 1))
             last == list[Len(list)]
         IN  IF includes(front, last) THEN front ELSE Append(front, last)

\* The next segments, beyond the typed path, of the fields of the resource
\* that are attributed to the path without its last segment and whose
\* qualified name starts with the path
NextSegmentsOf(resource, typedPath, v) ==
    LET segments == split(typedPath, ".")
        scope == Join(SubSeq(segments, 1, Len(segments) - 1), <<".">>)
        scoped == getFieldsForResourcePrefixIn(resource, scope, v)
        matching == SelectSeq(Descriptions(scoped),
                              LAMBDA d : startsWith(d, toLowerCase(typedPath)))
        nexts == [k \in 1..Len(matching) |-> RestUpToDot(matching[k], Len(typedPath))]
    IN  Distinct(SelectSeq(nexts, LAMBDA n : n # <<>>))

\* C15: when the typed path before the cursor contains a dot, field completion
\* takes the resource's fields scoped to the path without its last segment,
\* keeps those whose qualified name starts with the typed path, and returns one
\* suggestion per distinct next path segment: each suggestion is that next
\* segment alone, and no two suggestions share a next segment.
C15_NextSegmentOnly ==
    (/\ returned
     /\ completion # NoCompletion
     /\ context \in {"select_fields", "where_field"}
     /\ FirstFromResource(query) # Absent
     /\ includes(TypedPath(BeforeCursor), "."))
    => LET nexts == NextSegmentsOf(FirstFromResource(query), TypedPath(BeforeCursor), version)
       IN  completion.suggestions = ItemsOf(nexts, "field")

----------------------------------------------------------------------------
(* The registry lookups on their own: an artifact whose entries of resource *)
(* ca have some of their keys, then lookups with known and unknown resource *)
(* names and version identifiers.                                          *)

RegistryOps ==
    {"getFieldsForResource", "getFieldsForResourcePrefix", "getMetricsForResource",
     "getSegmentsForResource", "getResourceNames", "getResourceInfo",
     "getFieldsForResource()"}

ResourceArgs ==
    { <<"c","a">>, <<"a","g">>, <<"z","z">>, <<"c","o","n","s","t","r","u","c","t","o","r">> }

VersionArgs == SupportedApiVersions \cup {"22"}

PrefixArgs == { <<"c","a">>, <<"c","u">>, <<"z","z">> }

\* The calls: getResourceNames takes no resource, getFieldsForResourcePrefix
\* alone takes a prefix, and the variant without a version argument reads
\* currentApiVersion
RegistryCalls ==
    {c \in [op : RegistryOps, resource : ResourceArgs \cup {<<>>},
            version : VersionArgs, prefix : PrefixArgs \cup {<<>>}] :
        /\ (c.resource = <<>>) <=> (c.op = "getResourceNames")
        /\ (c.prefix # <<>>) <=> (c.op = "getFieldsForResourcePrefix")
        /\ (c.op = "getFieldsForResource()") => (c.version = "21")}

LookupOutcome(schemas, c) ==
    CASE c.op = "getFieldsForResource" -> FieldsForResource(schemas, c.resource, c.version)
      [] c.op = "getFieldsForResourcePrefix" ->
            FieldsForResourcePrefix(schemas, c.resource, c.prefix, c.version)
      [] c.op = "getMetricsForResource" -> MetricsForResource(schemas, c.resource, c.version)
      [] c.op = "getSegmentsForResource" -> SegmentsForResource(schemas, c.resource, c.version)
      [] c.op = "getResourceNames" -> ResourceNames(schemas, c.version)
      [] c.op = "getResourceInfo" -> ResourceInfo(schemas, c.resource, c.version)
      [] c.op = "getFieldsForResource()" -> FieldsForResourceCurrent(schemas, c.resource)

InitRegistry ==
    /\ IdleBuilder
    /\ IdleEditor
    /\ catalog \in {LoadedSchemas(keys) : keys \in SUBSET EntryKeys}
    /\ call = NoCall
    /\ outcome = NoOutcome
    /\ returned = FALSE
    /\ IdleValidator
    /\ IdleSuggest
    /\ IdleContext

\* One lookup of the registry
RegistryLookup(c) ==
    /\ call' = c
    /\ outcome' = LookupOutcome(catalog, c)
    /\ returned' = TRUE
    /\ UNCHANGED <<builders, validators, documents, settings, diagnostics,
                   currentApiVersion, query, result, input, candidates, suggestion,
                   position, version, context, completion, catalog>>

NextRegistry ==
    \/ \E v \in SupportedApiVersions : SetApiVersion(v)
    \/ \E c \in RegistryCalls : RegistryLookup(c)

SpecRegistry == InitRegistry /\ [][NextRegistry]_vars

\* The lookups that take the version as an argument
VersionedOps == RegistryOps \ {"getFieldsForResource()"}

\* The call names a version that is not supported, or a resource that the
\* artifact of its version does not have
UnknownArgument(c) ==
    \/ c.version \notin SupportedApiVersions
    \/ c.op # "getResourceNames" /\ ~HasKey(catalog[c.version], c.resource)

\* C16: no registry lookup (getResourceNames, getFieldsForResource,
\* getFieldsForResourcePrefix, getMetricsForResource, getSegmentsForResource,
\* getResourceInfo) raises an error for an unknown resource name or an unknown
\* version identifier: it returns an empty list, null for getResourceInfo.
C16_LookupsNeverRaise ==
    (returned /\ call.op \in VersionedOps /\ UnknownArgument(call))
    => IF call.op = "getResourceInfo" THEN outcome = ReturnsNull
       ELSE outcome = ReturnsList(<<>>)

\* The keys of the entries of resource ca in the artifact
CaKeys == catalog["21"][1].keys

\* The flattened field list of an entry, a collection whose key is missing
\* counting as empty
PresentFields(data) ==
    SortByName((IF "fields" \in data.keys THEN AllGroupFields(data.fields) ELSE <<>>)
               \o (IF "metrics" \in data.keys THEN MetricFields(data) ELSE <<>>)
               \o (IF "segments" \in data.keys THEN SegmentFields(data) ELSE <<>>))

\* C17: for a catalog entry that lacks any of its keys fields, metrics and
\* segments, every registry lookup for that resource treats the missing
\* collection as empty and returns without error; getFieldsForResource returns
\* the sorted union of the collections that are present.
C17_MissingKeysAreEmpty ==
    [][((\E c \in RegistryCalls : RegistryLookup(c))
        /\ call'.version \in SupportedApiVersions
        /\ call'.resource = <<"c","a">>
        /\ CaKeys # EntryKeys)
       => /\ outcome'.kind # "raised"
          /\ call'.op = "getFieldsForResource" =>
                outcome' = ReturnsList(PresentFields(Lookup(catalog[call'.version],
                                                            call'.resource)))
          /\ call'.op = "getFieldsForResource()" =>
                outcome' = ReturnsList(PresentFields(Lookup(catalog[currentApiVersion],
                                                            call'.resource)))]_vars

----------------------------------------------------------------------------
(* Clause extractor: the scanners that work without regular expressions *)

\* String.prototype.toUpperCase on the characters of the model's texts
toUpperCase(s) == [i \in 1..Len(s) |-> ToUpperChar(s[i])]

\* text.indexOf(keyword, pos) in 1-based indices, 0 when there is none
IndexOfFrom(text, keyword, pos) ==
    LET hits == {k \in pos..(Len(text) - Len(keyword) + 1) :
                    SubSeq(text, k, k + Len(keyword) - 1) = keyword}
    IN  IF hits = {} THEN 0 ELSE CHOOSE k \in hits : \A j \in hits : k <= j

RECURSIVE findKeywordIndex(_, _, _)
\* findKeywordIndex(text, keyword, from) in 1-based indices, 0 for -1: the
\* first occurrence from pos on with no identifier character on either side
findKeywordIndex(text, keyword, pos) ==
    IF pos > Len(text) - Len(keyword) + 1 THEN 0
    ELSE LET idx == IndexOfFrom(text, keyword, pos)
         IN  IF idx = 0 THEN 0
             ELSE IF ~IsWordAt(text, idx - 1) /\ ~IsWordAt(text, idx + Len(keyword))
             THEN idx
             ELSE findKeywordIndex(text, keyword, idx + 1)

\* The end of the WHERE body: the first whole-word ORDER after start when BY
\* follows it, else the end of the text; 1-based, exclusive
EndAtOrderBy(upper, start) ==
    LET orderIdx == findKeywordIndex(upper, KwOrder, start)
        afterOrder == SkipSpace(upper, orderIdx + 5)
    IN  IF orderIdx # 0
           /\ MatchesAt(upper, afterOrder, KwBy)
           /\ ~IsWordAt(upper, afterOrder + 2)
        THEN orderIdx
        ELSE Len(upper) + 1

\* The end moved to the first whole-word LIMIT after start when that comes
\* before it
EndAtLimit(upper, start, end) ==
    LET limitIdx == findKeywordIndex(upper, KwLimit, start)
    IN  IF limitIdx # 0 /\ limitIdx < end THEN limitIdx ELSE end

\* extractWhereClause(query): the body, Absent for null
extractWhereClause(q) ==
    LET upper == toUpperCase(q)
        whereIdx == findKeywordIndex(upper, KwWhere, 1)
    IN  IF whereIdx = 0 THEN Absent
        ELSE LET start == SkipSpace(q, whereIdx + 5)
             IN  IF start > Len(q) THEN Absent
                 ELSE LET end == EndAtLimit(upper, start, EndAtOrderBy(upper, start))
                          body == trim(Slice(q, start, end))
                      IN  IF body = <<>> THEN Absent ELSE body

RECURSIVE DottedFrom_WholePath(_, _, _)
\* Fault: every further .identifier is taken into the token
DottedFrom_WholePath(text, i, results) ==
    IF i > Len(text) THEN results
    ELSE IF text[i] \in IdentStartChars
    THEN LET j == SkipWord(text, i + 1)
         IN  IF j <= Len(text) /\ text[j] = "."
             THEN IF j + 1 <= Len(text) /\ text[j + 1] \in IdentStartChars
                  THEN LET e == CHOOSE e \in (j + 2)..(Len(text) + 1) :
                                    /\ IsDottedPath(Slice(text, i, e))
                                    /\ \A f \in (e + 1)..(Len(text) + 1) :
                                          ~IsDottedPath(Slice(text, i, f))
                       IN  DottedFrom_WholePath(text, e, Append(results, Slice(text, i, e)))
                  ELSE DottedFrom_WholePath(text, j + 1, results)
             ELSE DottedFrom_WholePath(text, j, results)
    ELSE DottedFrom_WholePath(text, i + 1, results)

RECURSIVE DottedFrom_NoDigits(_, _, _)
\* Fault: the second identifier ends at its first digit
DottedFrom_NoDigits(text, i, results) ==
    IF i > Len(text) THEN results
    ELSE IF text[i] \in IdentStartChars
    THEN LET j == SkipWord(text, i + 1)
         IN  IF j <= Len(text) /\ text[j] = "."
             THEN IF j + 1 <= Len(text) /\ text[j + 1] \in IdentStartChars
                  THEN LET e == CHOOSE e \in (j + 2)..(Len(text) + 1) :
                                    /\ e = Len(text) + 1 \/ text[e] \notin IdentStartChars
                                    /\ \A f \in (j + 2)..(e - 1) : text[f] \in IdentStartChars
                       IN  DottedFrom_NoDigits(text, e, Append(results, Slice(text, i, e)))
                  ELSE DottedFrom_NoDigits(text, j + 1, results)
             ELSE DottedFrom_NoDigits(text, j, results)
    ELSE DottedFrom_NoDigits(text, i + 1, results)

RECURSIVE DottedFrom(_, _, _)
\* The loop of extractDottedIdentifiers with i at a 1-based index: an
\* identifier, and when a dot and an identifier start follow it, the second
\* identifier; a dot followed by anything else is stepped over
DottedFrom(text, i, results) ==
    IF i > Len(text) THEN results
    ELSE IF text[i] \in IdentStartChars
    THEN LET j == SkipWord(text, i + 1)
         IN  IF j <= Len(text) /\ text[j] = "."
             THEN IF j + 1 <= Len(text) /\ text[j + 1] \in IdentStartChars
                  THEN LET e == SkipWord(text, j + 2)
                       IN  DottedFrom(text, e, Append(results, Slice(text, i, e)))
                  ELSE DottedFrom(text, j + 1, results)
             ELSE DottedFrom(text, j, results)
    ELSE DottedFrom(text, i + 1, results)

extractDottedIdentifiers(text) == DottedFrom(text, 1, <<>>)

----------------------------------------------------------------------------
(* The scanners on their own: a text, then the call of one of them.        *)

\* How long a text over the scanner's alphabet the model draws
MaxScanLen == 5

ScanAlphabet == {"a", "_", "1", ".", " "}

ShortTexts == UNION {[1..n -> ScanAlphabet] : n \in 0..MaxScanLen}

\* Longer texts with three and four segments and with dots that no
\* identifier follows
DottedTexts ==
    { <<"a",".","b",".","c">>,
      <<"a",".","b",".","c",".","d">>,
      <<"x"," ","a","."," ","b",".","c","_","1","=","d",".","e">>,
      <<"a",".","1","b",".","c">>,
      <<"A","1",".","B","2",".","c","3"," ","a",".",".","b">> }

\* A clause text is put together from what precedes the keyword, the keyword,
\* a body and what follows the body
ClauseHeads ==
    { <<>>,
      <<"S","E","L","E","C","T"," ","a"," ","F","R","O","M"," ","b"," ">>,
      <<"s","o","m","e","w","h","e","r","e"," ">> }
ClauseKeywords ==
    { <<"W","H","E","R","E"," ">>,
      <<"w","h","e","r","e","\n"," "," ">>,
      <<"W","H","E","R","E">>,
      <<"W","H","E","R","E","X"," ">>,
      <<>> }
ClauseBodies ==
    { <<"a",".","b"," ","="," ","1">>,
      <<"a",".","o","r","d","e","r"," ","="," ","1">>,
      <<"a">>,
      <<"l","i","m","i","t","s">>,
      <<>> }
ClauseTails ==
    { <<>>,
      <<" ","O","R","D","E","R"," ","B","Y"," ","c">>,
      <<"\n","o","r","d","e","r"," "," ","b","y"," ","c">>,
      <<" ","L","I","M","I","T"," ","1">>,
      <<" ","O","R","D","E","R"," ","c">>,
      <<" ","O","R","D","E","R"," ","B","Y"," ","c"," ","L","I","M","I","T"," ","1">>,
      <<" ","L","I","M","I","T"," ","1"," ","O","R","D","E","R"," ","B","Y"," ","c">>,
      <<" ","O","R","D","E","R","B","Y"," ","c">>,
      <<" ","O","R","D","E","R"," ","B","Y","E">>,
      <<" "," ">> }

ClauseTexts ==
    {h \o k \o b \o t : h \in ClauseHeads, k \in ClauseKeywords, b \in ClauseBodies,
                       t \in ClauseTails}

ScanTexts == ShortTexts \cup DottedTexts \cup ClauseTexts

\* What a scanner returned: a text, or null
ReturnsText(x) == IF x = Absent THEN ReturnsNull ELSE [kind |-> "text", value |-> x]

InitScanner ==
    /\ IdleBuilder
    /\ IdleEditor
    /\ query \in ScanTexts
    /\ call = NoCall
    /\ outcome = NoOutcome
    /\ catalog = LoadedSchemas(EntryKeys)
    /\ returned = FALSE
    /\ currentApiVersion = "21"
    /\ result = NoResult
    /\ IdleSuggest
    /\ IdleContext

\* extractDottedIdentifiers(query)
ExtractDottedIdentifiers ==
    /\ call' = [op |-> "extractDottedIdentifiers"]
    /\ outcome' = ReturnsList(extractDottedIdentifiers(query))
    /\ returned' = TRUE
    /\ UNCHANGED <<builders, validators, documents, settings, diagnostics,
                   currentApiVersion, query, result, input, candidates, suggestion,
                   position, version, context, completion, catalog>>

\* extractWhereClause(query)
ExtractWhereClause ==
    /\ call' = [op |-> "extractWhereClause"]
    /\ outcome' = ReturnsText(extractWhereClause(query))
    /\ returned' = TRUE
    /\ UNCHANGED <<builders, validators, documents, settings, diagnostics,
                   currentApiVersion, query, result, input, candidates, suggestion,
                   position, version, context, completion, catalog>>

NextScanner ==
    \/ ExtractDottedIdentifiers
    \/ ExtractWhereClause

SpecScanner == InitScanner /\ [][NextScanner]_vars

\* s is identifier '.' identifier: exactly one dot, an identifier on each side
IsDottedPair(s) == IsDottedPath(s) /\ Len(split(s, ".")) = 2

\* The longest dotted pair of t that starts at i ends before this index; 0 when
\* no dotted pair starts at i
PairEnd(t, i) ==
    LET ends == {e \in (i + 1)..(Len(t) + 1) : IsDottedPair(Slice(t, i, e))}
    IN  IF ends = {} THEN 0 ELSE CHOOSE e \in ends : \A f \in ends : f <= e

RECURSIVE PairsFrom(_, _)
\* The dotted pairs of t from index i on, leftmost first, each the longest at
\* its place, none overlapping the one before
PairsFrom(t, i) ==
    LET places == {p \in i..Len(t) : PairEnd(t, p) # 0}
    IN  IF places = {} THEN <<>>
        ELSE LET p == CHOOSE p \in places : \A r \in places : p <= r
             IN  <<Slice(t, p, PairEnd(t, p))>> \o PairsFrom(t, PairEnd(t, p))

\* sub occurs in t
Occurs(t, sub) ==
    \E p \in 1..(Len(t) - Len(sub) + 1) : SubSeq(t, p, p + Len(sub) - 1) = sub

\* C18: extractDottedIdentifiers(text) returns, from left to right, the
\* non-overlapping tokens identifier '.' identifier that one scan finds: each
\* has exactly one dot and occurs in text, a third segment is never part of a
\* token ('a.b.c' gives 'a.b'), and an identifier with a dot that no identifier
\* start follows gives no token, the scan going on right after that dot.
C18_DottedPairs ==
    (returned /\ call.op = "extractDottedIdentifiers")
    => /\ outcome.kind = "list"
       /\ outcome.value = PairsFrom(query, 1)
       /\ \A k \in 1..Len(outcome.value) :
             IsDottedPair(outcome.value[k]) /\ Occurs(query, outcome.value[k])
       /\ query = <<"a",".","b",".","c">> => outcome.value = << <<"a",".","b">> >>
       /\ query = <<"a",".","1","b",".","c">> => outcome.value = << <<"b",".","c">> >>

\* Four segments: the first pair and, after the dot that follows it, the
\* second pair were returned
C18_Witness ==
    /\ returned
    /\ call.op = "extractDottedIdentifiers"
    /\ query = <<"a",".","b",".","c",".","d">>
    /\ outcome.value = << <<"a",".","b">>, <<"c",".","d">> >>

\* kw is in t at i as a whole word, whatever its letter case
WholeWordAt(t, i, kw) ==
    MatchesAt(t, i, kw) /\ ~IsWordAt(t, i - 1) /\ ~IsWordAt(t, i + Len(kw))

\* A whole-word ORDER at i with a whole-word BY after it, whitespace between
OrderByAt(t, i) ==
    /\ WholeWordAt(t, i, KwOrder)
    /\ IsSpaceAt(t, i + 5)
    /\ WholeWordAt(t, SkipSpace(t, i + 5), KwBy)

\* A keyword that closes the WHERE body is at i
CloserAt(t, i) == OrderByAt(t, i) \/ WholeWordAt(t, i, KwLimit)

\* The trimmed text between the first whole-word WHERE of t and the first
\* closing keyword after it, or the end of t; Absent without such a WHERE or
\* when that text is empty
WhereBody(t) ==
    LET wheres == {i \in 1..Len(t) : WholeWordAt(t, i, KwWhere)}
    IN  IF wheres = {} THEN Absent
        ELSE LET w == CHOOSE i \in wheres : \A j \in wheres : i <= j
                 closers == {i \in (w + 5)..Len(t) : CloserAt(t, i)}
                 end == IF closers = {} THEN Len(t) + 1
                        ELSE CHOOSE i \in closers : \A j \in closers : i <= j
                 body == trim(Slice(t, w + 5, end))
             IN  IF body = <<>> THEN Absent ELSE body

\* C19: extractWhereClause returns the trimmed text between the first
\* whole-word, case-insensitive WHERE and the first whole-word ORDER BY or LIMIT
\* after it, or the end of the text: the body never contains a whole-word LIMIT
\* or a whole-word ORDER followed by BY, and there is none without a whole-word
\* WHERE or when the body is empty.
C19_WhereBody ==
    (returned /\ call.op = "extractWhereClause")
    => /\ outcome = ReturnsText(WhereBody(query))
       /\ outcome.kind = "text" =>
             \A i \in 1..Len(outcome.value) : ~CloserAt(outcome.value, i)

----------------------------------------------------------------------------
(* validateText: the queries of a document *)

\* The backtick (U+0060), a character that a string of this language cannot
\* hold
Backtick == "BACKTICK"

\* The capture group of queryRegex, under the i flag, matches all of body: no
\* backtick, and SELECT with FROM somewhere after it
SelectThenFrom(body) ==
    /\ \A k \in 1..Len(body) : body[k] # Backtick
    /\ \E i \in 1..Len(body) :
          /\ MatchesAt(body, i, KwSelect)
          /\ \E j \in (i + 6)..Len(body) : MatchesAt(body, j, KwFrom)

\* The index of the first backtick of text after index s, 0 when there is none
NextBacktick(text, s) ==
    LET ticks == {e \in (s + 1)..Len(text) : text[e] = Backtick}
    IN  IF ticks = {} THEN 0 ELSE CHOOSE e \in ticks : \A f \in ticks : e <= f

\* queryRegex matches text at index s: a backtick, a body and the next backtick
QueryRegexAt(text, s) ==
    /\ text[s] = Backtick
    /\ NextBacktick(text, s) # 0
    /\ SelectThenFrom(Slice(text, s + 1, NextBacktick(text, s)))

\* text.substring(0, startPos).split('\n').length - 1
LineOf(text, s) == Len(split(Slice(text, 1, s), "\n")) - 1

RECURSIVE ValidateTextFrom(_, _)
\* The loop of validateText with lastIndex at the 1-based index i
ValidateTextFrom(text, i) ==
    LET starts == {s \in i..Len(text) : QueryRegexAt(text, s)}
    IN  IF starts = {} THEN <<>>
        ELSE LET s == CHOOSE s \in starts : \A r \in starts : s <= r
                 e == NextBacktick(text, s)
                 q == trim(Slice(text, s + 1, e))
                 res == validateQuery(q)
             IN  <<[valid |-> res.valid, errors |-> res.errors, query |-> q,
                    line |-> LineOf(text, s)]>>
                 \o ValidateTextFrom(text, e + 1)

validateText(text) == ValidateTextFrom(text, 1)

----------------------------------------------------------------------------
(* validateText on its own: a document of up to two template literals with *)
(* text before, between and after them, under each version.                *)

LiteralBodies ==
    { <<"H","e","l","l","o">>,
      <<"S","E","L","E","C","T"," ","c","a",".","i","d"," ","F","R","O","M"," ","c","a">>,
      <<"\n"," "," ","s","e","l","e","c","t"," ","a","g",".","i","d","\n"," "," ","f","r","o","m"," ","a","g","\n">>,
      <<"S","E","L","E","C","T"," ","c","a",".","z","z"," ","F","R","O","M"," ","c","a">>,
      <<"F","R","O","M"," ","c","a"," ","S","E","L","E","C","T"," ","c","a",".","i","d">> }

DocumentHeads ==
    { <<>>,
      <<"x","\n","\n","y"," ","="," ">> }

DocumentMiddles ==
    { <<";","\n">>,
      <<" ","S","E","L","E","C","T"," ","c","a",".","i","d"," ","F","R","O","M"," ","c","a"," ">> }

Literal(body) == <<Backtick>> \o body \o <<Backtick>>

Documents ==
    {h \o Literal(b) : h \in DocumentHeads, b \in LiteralBodies}
    \cup {h \o Literal(b1) \o m \o Literal(b2) :
             h \in DocumentHeads, b1 \in LiteralBodies, m \in DocumentMiddles,
             b2 \in LiteralBodies}
    \cup {m \o <<Backtick>> \o b : m \in DocumentMiddles, b \in LiteralBodies}

InitText ==
    /\ IdleBuilder
    /\ IdleEditor
    /\ query \in Documents
    /\ currentApiVersion = "21"
    /\ result = NoResult
    /\ returned = FALSE
    /\ IdleSuggest
    /\ IdleContext
    /\ IdleRegistry

\* validateText(query), the document being held in query
ValidateText ==
    /\ call' = [op |-> "validateText"]
    /\ outcome' = ReturnsList(validateText(query))
    /\ returned' = TRUE
    /\ UNCHANGED <<builders, validators, documents, settings, diagnostics,
                   currentApiVersion, query, result, input, candidates, suggestion,
                   position, version, context, completion, catalog>>

NextText ==
    \/ \E v \in SupportedApiVersions : SetApiVersion(v)
    \/ ValidateText

SpecText == InitText /\ [][NextText]_vars

\* t contains kw, whatever its letter case
ContainsKeyword(t, kw) == \E i \in 1..Len(t) : MatchesAt(t, i, kw)

RECURSIVE LiteralsFrom(_, _)
\* The template literals of text from index i on: the backticks taken in
\* pairs, an opening one and the next one closing it
LiteralsFrom(text, i) ==
    LET open == NextBacktick(text, i - 1)
        close == IF open = 0 THEN 0 ELSE NextBacktick(text, open)
    IN  IF close = 0 THEN <<>>
        ELSE <<[open |-> open, body |-> Slice(text, open + 1, close)]>>
             \o LiteralsFrom(text, close + 1)

\* The entry of one literal: the validateQuery result of its trimmed body and
\* the 0-based line of its opening backtick
EntryOf(text, literal) ==
    LET q == trim(literal.body)
    IN  [valid |-> validateQuery(q).valid, errors |-> validateQuery(q).errors,
         query |-> q,
         line |-> Cardinality({k \in 1..(literal.open - 1) : text[k] = "\n"})]

\* One entry per literal whose body contains both SELECT and FROM, in order
QueryEntries(text) ==
    LET queries == SelectSeq(LiteralsFrom(text, 1),
                             LAMBDA l : ContainsKeyword(l.body, KwSelect)
                                        /\ ContainsKeyword(l.body, KwFrom))
    IN  [k \in 1..Len(queries) |-> EntryOf(text, queries[k])]

\* C20: validateText(document) returns, in document order, exactly one entry
\* per backtick-delimited template literal whose body contains both SELECT and
\* FROM, and nothing else: literals that are no queries and text between two
\* literals are never reported; each entry carries the validateQuery result of
\* the trimmed body and the 0-based line of the opening backtick.
C20_OneEntryPerQueryLiteral ==
    [][ValidateText => outcome' = ReturnsList(QueryEntries(query))]_vars

----------------------------------------------------------------------------
(* What a verdict of the validator says about the text it was given.        *)

\* The text between the first whole-word SELECT of t and the first whole-word
\* FROM after it, Absent when t has no such pair
SelectListOf(t) ==
    LET selects == {i \in 1..Len(t) : WholeWordAt(t, i, KwSelect)}
    IN  IF selects = {} THEN Absent
        ELSE LET s == CHOOSE i \in selects : \A j \in selects : i <= j
                 froms == {i \in (s + 6)..Len(t) : WholeWordAt(t, i, KwFrom)}
             IN  IF froms = {} THEN Absent
                 ELSE Slice(t, s + 6, CHOOSE i \in froms : \A j \in froms : i <= j)

\* The comma-separated entries of a SELECT list, each trimmed
EntriesOf(list) ==
    LET parts == split(list, ",")
    IN  [i \in 1..Len(parts) |-> trim(parts[i])]

\* t names a resource of the version in effect after FROM and selects a
\* non-empty list of qualified names of that resource
SelectsFieldsOfItsResource(t) ==
    LET R == FirstFromIdentifier(t)
        list == SelectListOf(t)
    IN  /\ R # Absent
        /\ includes(getResourceNames, R)
        /\ list # Absent
        /\ trim(list) # <<>>
        /\ \A i \in 1..Len(EntriesOf(list)) :
              includes(Descriptions(getFieldsForResource(R)), EntriesOf(list)[i])

\* C27: a verdict valid = true is sound: the query names a resource of the
\* version after FROM, its SELECT list is not empty, and every comma-separated
\* entry of the list is a qualified field, metric or segment name of that
\* resource.
C27_ValidIsSound ==
    [][ValidateQuery => (result'.valid => SelectsFieldsOfItsResource(query))]_vars

\* The queries "SELECT F FROM R WHERE F = 1" over the resources R and the
\* fields, metrics and segments F of the version in effect
FieldWhereQueries ==
    {SelectOneFromWhere(getFieldsForResource(R)[k].description, R) :
        <<R, k>> \in {<<R, k>> \in Range(getResourceNames) \X (1..8) :
                         k <= Len(getFieldsForResource(R))}}

\* C28: a field that is valid for a resource is accepted in the WHERE clause as
\* well: for every resource R of the version and every field F of its flattened
\* list, names of three or more segments included,
\* validateQuery("SELECT F FROM R WHERE F = 1") returns valid = true.
C28_ValidFieldValidInWhere ==
    [][(query \in CatalogWhereQueries /\ ValidateQuery /\ query \in FieldWhereQueries)
        => result'.valid]_vars

\* The span (line, column, length) of error e lies inside text t and the
\* characters it covers are e.field
LocatedOnField(t, e) ==
    LET lines == split(t, "\n")
    IN  /\ e.line >= 0
        /\ e.line < Len(lines)
        /\ e.column >= 0
        /\ e.column + e.length <= Len(lines[e.line + 1])
        /\ Slice(lines[e.line + 1], e.column + 1, e.column + e.length + 1) = e.field

\* C29: every error that carries a field is located on that text: for each
\* INVALID_FIELD and INVALID_RESOURCE error of validateQuery, the span given by
\* line, column and length lies inside the original query text and covers
\* exactly error.field.
C29_ErrorsLocatedOnField ==
    [][ValidateQuery =>
        \A i \in 1..Len(result'.errors) :
            result'.errors[i].type \in {"invalid_field", "invalid_resource"} =>
                LocatedOnField(query, result'.errors[i])]_vars

----------------------------------------------------------------------------
(* The scanner and the regular expression it stands in for.                *)

\* C30: the linear scanner is equivalent to the regular expression it
\* replaced: for every text, extractDottedIdentifiers returns the sequence of
\* tokens that the global, case-insensitive match of
\* /([a-z_][a-z0-9_]*\.[a-z_][a-z0-9_]*)/ returns (no token where the match
\* is null).
C30_ScannerEqualsRegex ==
    (returned /\ call.op = "extractDottedIdentifiers")
    => outcome = ReturnsList(FieldRegexMatches(query))

\* A text where the scan steps over a dot that no identifier follows and then
\* finds two tokens, the first with a digit in it
C30_Witness ==
    /\ returned
    /\ call.op = "extractDottedIdentifiers"
    /\ query = <<"x"," ","a","."," ","b",".","c","_","1","=","d",".","e">>
    /\ outcome.value = << <<"b",".","c","_","1">>, <<"d",".","e">> >>
    /\ outcome.value = FieldRegexMatches(query)

----------------------------------------------------------------------------
(* The loops of the two manual scanners, one iteration a step: position is  *)
(* the loop variable (i of extractDottedIdentifiers, pos of                *)
(* findKeywordIndex) as a 1-based index, outcome.value what has been       *)
(* collected, outcome.iterations how often the loop body has run.          *)

\* Fault: after a dot that no identifier start follows the scan goes back to
\* where the identifier began
DottedStep_BackToStart(text, i) ==
    IF text[i] \in IdentStartChars
    THEN LET j == SkipWord(text, i + 1)
         IN  IF j <= Len(text) /\ text[j] = "."
             THEN IF j + 1 <= Len(text) /\ text[j + 1] \in IdentStartChars
                  THEN [next |-> SkipWord(text, j + 2),
                        token |-> Slice(text, i, SkipWord(text, j + 2))]
                  ELSE [next |-> i, token |-> Absent]
             ELSE [next |-> j, token |-> Absent]
    ELSE [next |-> i + 1, token |-> Absent]

\* One run of the body of the while loop of extractDottedIdentifiers with i at
\* a 1-based index: the value of i after it and the token pushed, if any
DottedStep(text, i) ==
    IF text[i] \in IdentStartChars
    THEN LET j == SkipWord(text, i + 1)
         IN  IF j <= Len(text) /\ text[j] = "."
             THEN IF j + 1 <= Len(text) /\ text[j + 1] \in IdentStartChars
                  THEN [next |-> SkipWord(text, j + 2),
                        token |-> Slice(text, i, SkipWord(text, j + 2))]
                  ELSE [next |-> j + 1, token |-> Absent]
             ELSE [next |-> j, token |-> Absent]
    ELSE [next |-> i + 1, token |-> Absent]

\* One run of the body of the while loop of findKeywordIndex with pos at a
\* 1-based index: whether it returns, the index returned (0 for -1) and the
\* value of pos after it
KeywordStep(text, keyword, pos) ==
    LET idx == IndexOfFrom(text, keyword, pos)
    IN  IF idx = 0 THEN [returns |-> TRUE, value |-> 0, next |-> pos]
        ELSE IF ~IsWordAt(text, idx - 1) /\ ~IsWordAt(text, idx + Len(keyword))
        THEN [returns |-> TRUE, value |-> idx, next |-> pos]
        ELSE [returns |-> FALSE, value |-> 0, next |-> idx + 1]

\* The calls whose loops are followed: the token scan of a text, and the
\* keyword searches that extractWhereClause makes in the upper-cased text
LoopCalls ==
    {[op |-> "extractDottedIdentifiers", keyword |-> <<>>, from |-> 1]}
    \cup {[op |-> "findKeywordIndex", keyword |-> kw, from |-> f] :
             kw \in {KwWhere, KwOrder, KwLimit}, f \in {1, 7}}

Running(value, n) == [kind |-> "running", value |-> value, iterations |-> n]
ReturnsAfter(kind, value, n) == [kind |-> kind, value |-> value, iterations |-> n]

InitLoop ==
    /\ IdleBuilder
    /\ IdleEditor
    /\ call \in LoopCalls
    /\ query \in (IF call.op = "findKeywordIndex" THEN ClauseTexts \cup DottedTexts
                  ELSE ScanTexts)
    /\ position = call.from
    /\ outcome = Running(<<>>, 0)
    /\ returned = FALSE
    /\ currentApiVersion = "21"
    /\ result = NoResult
    /\ IdleSuggest
    /\ version = "21" /\ context = "none" /\ completion = NoCompletion
    /\ catalog = LoadedSchemas(EntryKeys)

\* while (i < len) { ... }: the body runs once
DottedLoop ==
    /\ call.op = "extractDottedIdentifiers"
    /\ ~returned
    /\ position <= Len(query)
    /\ outcome.iterations <= Len(query)
    /\ LET step == DottedStep(query, position)
       IN  /\ position' = step.next
           /\ outcome' = Running(IF step.token = Absent THEN outcome.value
                                 ELSE Append(outcome.value, step.token),
                                 outcome.iterations + 1)
    /\ UNCHANGED <<builders, validators, documents, settings, diagnostics,
                   currentApiVersion, query, result, returned, input, candidates,
                   suggestion, version, context, completion, catalog, call>>

\* The loop condition fails: return results
DottedReturn ==
    /\ call.op = "extractDottedIdentifiers"
    /\ ~returned
    /\ position > Len(query)
    /\ returned' = TRUE
    /\ outcome' = ReturnsAfter("list", outcome.value, outcome.iterations)
    /\ UNCHANGED <<builders, validators, documents, settings, diagnostics,
                   currentApiVersion, query, result, input, candidates, suggestion,
                   position, version, context, completion, catalog, call>>

\* while (pos <= text.length - len) { ... }: the body runs once
KeywordLoop ==
    /\ call.op = "findKeywordIndex"
    /\ ~returned
    /\ position <= Len(query) - Len(call.keyword) + 1
    /\ outcome.iterations <= Len(query)
    /\ LET step == KeywordStep(toUpperCase(query), call.keyword, position)
       IN  /\ position' = step.next
           /\ returned' = step.returns
           /\ outcome' = IF step.returns
                         THEN ReturnsAfter("index", step.value, outcome.iterations + 1)
                         ELSE Running(<<>>, outcome.iterations + 1)
    /\ UNCHANGED <<builders, validators, documents, settings, diagnostics,
                   currentApiVersion, query, result, input, candidates, suggestion,
                   version, context, completion, catalog, call>>

\* The loop condition fails: return -1
KeywordReturn ==
    /\ call.op = "findKeywordIndex"
    /\ ~returned
    /\ position > Len(query) - Len(call.keyword) + 1
    /\ returned' = TRUE
    /\ outcome' = ReturnsAfter("index", 0, outcome.iterations)
    /\ UNCHANGED <<builders, validators, documents, settings, diagnostics,
                   currentApiVersion, query, result, input, candidates, suggestion,
                   position, version, context, completion, catalog, call>>

NextLoop ==
    \/ DottedLoop
    \/ DottedReturn
    \/ KeywordLoop
    \/ KeywordReturn

SpecLoop == InitLoop /\ [][NextLoop]_vars

\* C26: the manual scanners terminate on every text: in extractDottedIdentifiers
\* and in findKeywordIndex each run of the loop body that does not return
\* leaves the scan position strictly greater than it found it, never back at a
\* position already passed, and each scan ends after at most length-of-text
\* runs of its loop body.
C26_ScanPositionIncreases ==
    [][(outcome'.iterations > outcome.iterations)
        => /\ outcome'.iterations <= Len(query)
           /\ ~returned' => position' > position
           /\ position' >= position
           /\ position' <= Len(query) + 1]_vars

\* The token scan has returned after stepping over a dot that no identifier
\* start follows, with what extractDottedIdentifiers returns for the text, and
\* in fewer runs of the loop body than the text has characters
C26_Witness ==
    /\ returned
    /\ call.op = "extractDottedIdentifiers"
    /\ query = <<"x"," ","a","."," ","b",".","c","_","1","=","d",".","e">>
    /\ outcome.value = extractDottedIdentifiers(query)
    /\ outcome.iterations = 7
    /\ position = Len(query) + 1

----------------------------------------------------------------------------
(* The query builder (builder.ts).  Its default validator calls            *)
(* validateQuery(query, version) of validator.js with the version it holds: *)
(* the verdict of that call is the verdict of the checks of validateQuery  *)
(* made against the schema of the version handed in.                       *)

\* validateQuery(query, version).valid
ValidIn(q, v) ==
    LET cleanedQuery == stripTemplateLiteralInterpolations(q)
        resourceName == FromMatch(cleanedQuery)
        selectMatch == SelectMatch(cleanedQuery)
        whereMatch == WhereMatch(cleanedQuery)
        validFieldDescriptions == Descriptions(getFieldsForResourceIn(resourceName, v))
        AllValid(fieldList) ==
            \A k \in 1..Len(fieldList) : includes(validFieldDescriptions, fieldList[k])
    IN  /\ HasWholeWord(cleanedQuery, KwSelect)
        /\ HasWholeWord(cleanedQuery, KwFrom)
        /\ resourceName # Absent
        /\ includes(getResourceNamesIn(v), resourceName)
        /\ selectMatch # Absent => AllValid(SelectFields(selectMatch))
        /\ whereMatch # Absent => AllValid(FieldRegexMatches(whereMatch))

\* defaultApiVersion
defaultApiVersion == "21"

\* The decimal digits, the digit d at index d + 1
DigitText == <<"0","1","2","3","4","5","6","7","8","9">>

RECURSIVE NumberToString(_)
\* The text of a natural number in a template literal
NumberToString(n) ==
    IF n < 10 THEN <<DigitText[n + 1]>>
    ELSE NumberToString(n \div 10) \o <<DigitText[(n % 10) + 1]>>

\* new DefaultQueryValidator(apiVersion) and a validator handed in by the
\* caller, one that reports every query invalid
DefaultQueryValidator(v) == [kind |-> "default", apiVersion |-> v]
CustomValidator == [kind |-> "custom", apiVersion |-> "none"]

\* new GoogleAdsQueryBuilder(config): no clause set; an undefined _from is
\* Absent, an undefined _limit the empty sequence; validator names the object
\* the field refers to, hooks says that an executor and a parser were given
NewBuilder(config) ==
    [select |-> <<>>, from |-> Absent, where |-> <<>>, orderBy |-> <<>>,
     limit |-> <<>>, parameters |-> <<>>,
     validator |-> config.validator, hooks |-> config.hooks,
     autoValidate |-> config.autoValidate, apiVersion |-> config.apiVersion,
     log |-> <<>>, made |-> 0]

\* o.field + ' ' + o.direction for every entry of _orderBy
OrderByTexts(orderBy) ==
    [k \in 1..Len(orderBy) |-> orderBy[k].field \o <<" ">> \o orderBy[k].direction]

\* Fault: the LIMIT clause is pushed before the ORDER BY clause
QueryParts_LimitFirst(b) ==
    (IF Len(b.select) > 0 THEN << <<"S","E","L","E","C","T"," ">> \o Join(b.select, <<",", " ">>) >> ELSE <<>>)
    \o (IF b.from # Absent /\ b.from # <<>> THEN << <<"F","R","O","M"," ">> \o b.from >> ELSE <<>>)
    \o (IF Len(b.where) > 0
        THEN << <<"W","H","E","R","E"," ">> \o Join(b.where, <<" ","A","N","D"," ">>) >> ELSE <<>>)
    \o (IF b.limit # <<>>
        THEN << <<"L","I","M","I","T"," ">> \o NumberToString(b.limit[1]) >> ELSE <<>>)
    \o (IF Len(b.orderBy) > 0
        THEN << <<"O","R","D","E","R"," ","B","Y"," ">> \o Join(OrderByTexts(b.orderBy), <<",", " ">>) >>
        ELSE <<>>)
    \o (IF Len(b.parameters) > 0
        THEN << <<"P","A","R","A","M","E","T","E","R","S"," ">> \o Join(b.parameters, <<",">>) >>
        ELSE <<>>)

\* parts as build() and _buildWithoutValidation() fill it
QueryParts(b) ==
    (IF Len(b.select) > 0 THEN << <<"S","E","L","E","C","T"," ">> \o Join(b.select, <<",", " ">>) >> ELSE <<>>)
    \o (IF b.from # Absent /\ b.from # <<>> THEN << <<"F","R","O","M"," ">> \o b.from >> ELSE <<>>)
    \o (IF Len(b.where) > 0
        THEN << <<"W","H","E","R","E"," ">> \o Join(b.where, <<" ","A","N","D"," ">>) >> ELSE <<>>)
    \o (IF Len(b.orderBy) > 0
        THEN << <<"O","R","D","E","R"," ","B","Y"," ">> \o Join(OrderByTexts(b.orderBy), <<",", " ">>) >>
        ELSE <<>>)
    \o (IF b.limit # <<>>
        THEN << <<"L","I","M","I","T"," ">> \o NumberToString(b.limit[1]) >> ELSE <<>>)
    \o (IF Len(b.parameters) > 0
        THEN << <<"P","A","R","A","M","E","T","E","R","S"," ">> \o Join(b.parameters, <<",">>) >>
        ELSE <<>>)

\* _buildWithoutValidation(): parts.join(' ')
buildWithoutValidation(b) == Join(QueryParts(b), <<" ">>)

\* this.validator.validate(query).valid, vs being the validator objects
Reports(vs, b, q) ==
    IF vs[b.validator].kind = "default" THEN ValidIn(q, vs[b.validator].apiVersion)
    ELSE FALSE

\* An error thrown, with the start of its message
Raises(message) == [kind |-> "raised", value |-> message]
Threw == Raises(<<"Q","u","e","r","y"," ","v","a","l","i","d","a","t","i","o","n"," ","f","a","i","l","e","d">>)
Returned(kind, value) == [kind |-> kind, value |-> value]

\* Fault: the verdict of the validator is not looked at
build_NeverThrows(vs, b) == Returned("text", Join(QueryParts(b), <<" ">>))

\* build(): the query, or the error thrown when autoValidate is on and the
\* validator reports the query invalid
build(vs, b) ==
    LET q == Join(QueryParts(b), <<" ">>)
    IN  IF b.autoValidate /\ ~Reports(vs, b, q) THEN Threw ELSE Returned("text", q)

\* validate(): the verdict of the validator on the query as built
validate(vs, b) ==
    Returned("result", IF Reports(vs, b, buildWithoutValidation(b))
                       THEN <<"valid">> ELSE <<"invalid">>)

\* execute() and parse(): what the executor or the parser is handed, or the
\* error thrown when there is none or when build() throws
Handing(vs, b, kind) ==
    IF ~b.hooks
    THEN Raises(IF kind = "executed" THEN <<"N","o"," ","e","x","e","c","u","t","o","r"," ","c","o","n","f","i","g","u","r","e","d">> ELSE <<"N","o"," ","p","a","r","s","e","r"," ","c","o","n","f","i","g","u","r","e","d">>)
    ELSE IF build(vs, b) = Threw THEN Threw
    ELSE Returned(kind, build(vs, b).value)

\* How many clause calls and resets the model makes on its builders
MaxBuilderCalls == 2

\* The arguments of the clause methods
SelectArgs == { << <<"a","g",".","i","d">> >>, << <<"c","a",".","i","d">>, <<"c","a",".","s","t">> >> }
FromArgs == { <<"c","a">>, <<"a","g">> }
WhereArgs == { <<"c","a",".","i","d"," ","="," ","1">>, <<"c","a",".","z","z"," ","="," ","2">> }
OrderByArgs == { [field |-> <<"c","a",".","i","d">>, direction |-> <<"D","E","S","C">>] }
LimitArgs == {0, 5}
ParametersArgs == { << <<"p","=","1">>, <<"q","=","2">> >> }

\* What the constructor is given: whether to validate in build(), the default
\* validator or one of the caller, and whether there are an executor and a parser
BuilderConfigs ==
    {config \in [autoValidate : BOOLEAN, validator : {"default", "custom"},
                 hooks : BOOLEAN, apiVersion : {defaultApiVersion}] :
        config.hooks = config.autoValidate}

RECURSIVE SumOfMade(_, _)
SumOfMade(bs, ids) ==
    IF ids = {} THEN 0
    ELSE LET x == CHOOSE x \in ids : TRUE IN bs[x].made + SumOfMade(bs, ids \ {x})

\* Another clause call or reset fits the model
CallsLeft == SumOfMade(builders, DOMAIN builders) < MaxBuilderCalls

InitBuilder ==
    /\ \E config \in BuilderConfigs :
          /\ builders = [x \in {"b"} |-> NewBuilder([config EXCEPT !.validator = "v"])]
          /\ validators = [x \in {"v"} |->
                             IF config.validator = "default"
                             THEN DefaultQueryValidator(config.apiVersion)
                             ELSE CustomValidator]
    /\ call = [op |-> "new", builder |-> "b"]
    /\ outcome = NoOutcome
    /\ IdleEditor
    /\ catalog = LoadedSchemas(EntryKeys)
    /\ currentApiVersion = "21"
    /\ query = <<>>
    /\ result = NoResult
    /\ returned = FALSE
    /\ IdleSuggest
    /\ IdleContext

\* A clause method or reset() on builder x: the fields it assigns, the call
\* noted in the builder's log, and this returned
Fluent(x, op, arg, after) ==
    /\ CallsLeft
    /\ builders' = [builders EXCEPT ![x] =
                       [after EXCEPT !.log = IF op = "reset" THEN <<>>
                                             ELSE Append(@, [op |-> op, arg |-> arg]),
                                     !.made = @ + 1]]
    /\ call' = [op |-> op, builder |-> x]
    /\ outcome' = Returned("this", <<>>)
    /\ UNCHANGED <<validators, documents, settings, diagnostics, currentApiVersion, query,
                   result, returned, input, candidates, suggestion, position, version,
                   context, completion, catalog>>

\* from(resource)
From(x, resource) ==
    Fluent(x, "from", resource, [builders[x] EXCEPT !.from = resource])

\* select(fields)
Select(x, fields) ==
    Fluent(x, "select", fields, [builders[x] EXCEPT !.select = @ \o fields])

\* where(condition)
Where(x, condition) ==
    Fluent(x, "where", condition, [builders[x] EXCEPT !.where = Append(@, condition)])

\* orderBy(field, direction)
OrderBy(x, o) ==
    Fluent(x, "orderBy", o, [builders[x] EXCEPT !.orderBy = Append(@, o)])

\* limit(count)
Limit(x, count) ==
    Fluent(x, "limit", count, [builders[x] EXCEPT !.limit = <<count>>])

\* parameters(parameters)
Parameters(x, ps) ==
    Fluent(x, "parameters", ps, [builders[x] EXCEPT !.parameters = @ \o ps])

\* reset()
Reset(x) ==
    Fluent(x, "reset", <<>>,
           [builders[x] EXCEPT !.select = <<>>, !.from = Absent, !.where = <<>>,
                               !.orderBy = <<>>, !.limit = <<>>, !.parameters = <<>>])

\* setApiVersion(version) of the builder
SetBuilderApiVersion(x, v) ==
    /\ builders' = [builders EXCEPT ![x].apiVersion = v]
    /\ validators' = IF validators[builders[x].validator].kind = "default"
                     THEN [validators EXCEPT ![builders[x].validator].apiVersion = v]
                     ELSE validators
    /\ call' = [op |-> "setApiVersion", builder |-> x]
    /\ outcome' = Returned("this", <<>>)
    /\ UNCHANGED <<documents, settings, diagnostics, currentApiVersion, query, result,
                   returned, input, candidates, suggestion, position, version, context,
                   completion, catalog>>

\* clone() on the first builder: the second one, with the validator, executor,
\* parser, autoValidate and apiVersion of the first and copies of its clauses
Clone(x) ==
    /\ DOMAIN builders = {"b"}
    /\ x = "b"
    /\ builders' = [k \in {"b", "c"} |->
                       IF k = "b" THEN builders["b"]
                       ELSE [NewBuilder([validator |-> builders[x].validator,
                                         hooks |-> builders[x].hooks,
                                         autoValidate |-> builders[x].autoValidate,
                                         apiVersion |-> builders[x].apiVersion])
                             EXCEPT !.select = builders[x].select,
                                    !.from = builders[x].from,
                                    !.where = builders[x].where,
                                    !.orderBy = builders[x].orderBy,
                                    !.limit = builders[x].limit,
                                    !.parameters = builders[x].parameters,
                                    !.log = builders[x].log]]
    /\ call' = [op |-> "clone", builder |-> x]
    /\ outcome' = Returned("builder", <<>>)
    /\ UNCHANGED <<validators, documents, settings, diagnostics, currentApiVersion, query,
                   result, returned, input, candidates, suggestion, position, version,
                   context, completion, catalog>>

\* A method that leaves the builders as they are
Asks(x, op, answer) ==
    /\ call' = [op |-> op, builder |-> x]
    /\ outcome' = answer
    /\ UNCHANGED <<builders, validators, documents, settings, diagnostics,
                   currentApiVersion, query, result, returned, input, candidates,
                   suggestion, position, version, context, completion, catalog>>

\* build()
Build(x) == Asks(x, "build", build(validators, builders[x]))

\* validate()
Validate(x) == Asks(x, "validate", validate(validators, builders[x]))

\* execute()
Execute(x) == Asks(x, "execute", Handing(validators, builders[x], "executed"))

\* parse()
Parse(x) == Asks(x, "parse", Handing(validators, builders[x], "parsed"))

NextBuilder ==
    \/ \E x \in DOMAIN builders : \E resource \in FromArgs : From(x, resource)
    \/ \E x \in DOMAIN builders : \E fields \in SelectArgs : Select(x, fields)
    \/ \E x \in DOMAIN builders : \E condition \in WhereArgs : Where(x, condition)
    \/ \E x \in DOMAIN builders : \E o \in OrderByArgs : OrderBy(x, o)
    \/ \E x \in DOMAIN builders : \E count \in LimitArgs : Limit(x, count)
    \/ \E x \in DOMAIN builders : \E ps \in ParametersArgs : Parameters(x, ps)
    \/ \E x \in DOMAIN builders : Reset(x)
    \/ \E x \in DOMAIN builders : \E v \in {"19", "21"} : SetBuilderApiVersion(x, v)
    \/ \E x \in DOMAIN builders : Clone(x)
    \/ \E x \in DOMAIN builders : Build(x)
    \/ \E x \in DOMAIN builders : Validate(x)
    \/ \E x \in DOMAIN builders : Execute(x)
    \/ \E x \in DOMAIN builders : Parse(x)

SpecBuilder == InitBuilder /\ [][NextBuilder]_vars

----------------------------------------------------------------------------
(* Properties of the builder.  The log of a builder holds the clause calls *)
(* made on it since it was constructed or last reset, a clone starting     *)
(* with the log of its original.                                           *)

\* The arguments of the calls of one clause method in a log, in call order
ArgsOf(log, op) ==
    LET calls == SelectSeq(log, LAMBDA e : e.op = op)
    IN  [k \in 1..Len(calls) |-> calls[k].arg]

RECURSIVE ConcatAll(_)
\* The lists of a list of lists, one after the other
ConcatAll(lists) ==
    IF lists = <<>> THEN <<>> ELSE Head(lists) \o ConcatAll(Tail(lists))

\* keyword, a blank and body when there is a body, else no text
ClauseText(keyword, body) ==
    IF body = <<>> THEN <<>> ELSE keyword \o <<" ">> \o body

RECURSIVE SpacedTexts(_)
\* The texts of a list that are not empty, one blank between two of them
SpacedTexts(texts) ==
    IF texts = <<>> THEN <<>>
    ELSE IF Head(texts) = <<>> THEN SpacedTexts(Tail(texts))
    ELSE LET rest == SpacedTexts(Tail(texts))
         IN  IF rest = <<>> THEN Head(texts) ELSE Head(texts) \o <<" ">> \o rest

\* The query that the calls of a log ask for: the clauses in the order SELECT,
\* FROM, WHERE, ORDER BY, LIMIT, PARAMETERS, the select, where, orderBy and
\* parameters calls accumulated in call order, the last from and the last limit
ExpectedQuery(log) ==
    LET froms == ArgsOf(log, "from")
        limits == ArgsOf(log, "limit")
        orders == ArgsOf(log, "orderBy")
    IN  SpacedTexts(<<
            ClauseText(<<"S","E","L","E","C","T">>, Join(ConcatAll(ArgsOf(log, "select")), <<",", " ">>)),
            ClauseText(<<"F","R","O","M">>, IF froms = <<>> THEN <<>> ELSE froms[Len(froms)]),
            ClauseText(<<"W","H","E","R","E">>, Join(ArgsOf(log, "where"), <<" ","A","N","D"," ">>)),
            ClauseText(<<"O","R","D","E","R"," ","B","Y">>, Join([k \in 1..Len(orders) |->
                                     orders[k].field \o <<" ">> \o orders[k].direction],
                                 <<",", " ">>)),
            ClauseText(<<"L","I","M","I","T">>, IF limits = <<>> THEN <<>>
                           ELSE NumberToString(limits[Len(limits)])),
            ClauseText(<<"P","A","R","A","M","E","T","E","R","S">>, Join(ConcatAll(ArgsOf(log, "parameters")), <<",">>)) >>)

\* C21: every builder builds the query that its calls ask for, clauses in the
\* fixed order SELECT, FROM, WHERE, ORDER BY, LIMIT, PARAMETERS whatever the
\* order of the calls, and the string that build() returns is that query
C21_ClausesInFixedOrder ==
    \A x \in DOMAIN builders :
        /\ buildWithoutValidation(builders[x]) = ExpectedQuery(builders[x].log)
        /\ (call.op = "build" /\ call.builder = x /\ outcome.kind = "text")
              => outcome.value = ExpectedQuery(builders[x].log)

\* limit(5) and then select(['ag.id']) were called, and build() returned the
\* SELECT clause before the LIMIT clause
C21_Witness ==
    /\ call = [op |-> "build", builder |-> "b"]
    /\ Len(builders["b"].log) = 2
    /\ builders["b"].log[1].op = "limit"
    /\ builders["b"].log[2].op = "select"
    /\ outcome = Returned("text", <<"S","E","L","E","C","T"," ","a","g",".","i","d"," ","L","I","M","I","T"," ","5">>)

\* C22: with autoValidate on, build() throws 'Query validation failed' exactly
\* when the validator of the builder reports the built query invalid, and
\* execute() and parse() hand on only a query that the validator reports
\* valid; with autoValidate off, build() returns the query as built
C22_InvalidQueryNeverLeaves ==
    call.op \in {"build", "execute", "parse"} =>
        LET b == builders[call.builder]
            q == buildWithoutValidation(b)
            ok == Reports(validators, b, q)
        IN  /\ (call.op = "build" /\ b.autoValidate) =>
                  IF ok THEN outcome = Returned("text", q) ELSE outcome = Threw
            /\ (call.op = "build" /\ ~b.autoValidate) => outcome = Returned("text", q)
            /\ (outcome.kind \in {"executed", "parsed"} /\ b.autoValidate) =>
                  ok /\ outcome.value = q

\* build() threw on 'SELECT ag.id FROM ca', which the default validator
\* reports invalid
C22_Witness ==
    /\ call = [op |-> "build", builder |-> "b"]
    /\ builders["b"].autoValidate
    /\ validators[builders["b"].validator].kind = "default"
    /\ buildWithoutValidation(builders["b"]) = <<"S","E","L","E","C","T"," ","a","g",".","i","d"," ","F","R","O","M"," ","c","a">>
    /\ outcome = Threw

\* The operations on a builder that the independence of a clone is about
ChangingOps ==
    {"from", "select", "where", "orderBy", "limit", "parameters", "reset", "setApiVersion"}

----------------------------------------------------------------------------
(* The editor extension (vscode-extension): the handlers that activate()   *)
(* registers call validateDocument, which sets the entry of the document   *)
(* in the diagnostic collection.  validateDocument awaits nothing, so a    *)
(* call runs to its end before the next handler starts.                    *)

\* String.prototype.includes
Contains(t, sub) == indexOf(t, sub) >= 0

\* The directives that the validator looks for
GaqlDirective == <<"@","g","a","q","l">>
EnableDirective == <<"@","g","a","q","l","-","e","n","a","b","l","e">>
DisableDirective == <<"@","g","a","q","l","-","d","i","s","a","b","l","e">>
DisableNextLineDirective == <<"@","g","a","q","l","-","d","i","s","a","b","l","e","-","n","e","x","t","-","l","i","n","e">>

\* shouldValidate(text), activationMode being getActivationMode()
shouldValidate(text, activationMode) ==
    LET lines == split(text, "\n")
        firstLines == SubSeq(lines, 1, Min2(10, Len(lines)))
        hasEnable == \E k \in 1..Len(firstLines) :
                         \/ Contains(firstLines[k], EnableDirective)
                         \/ Contains(firstLines[k], GaqlDirective)
        hasDisable == \E k \in 1..Len(firstLines) : Contains(firstLines[k], DisableDirective)
    IN  IF hasDisable THEN FALSE
        ELSE IF hasEnable THEN TRUE
        ELSE activationMode = "always"

RECURSIVE TicksFrom(_, _)
\* The indices in text of the backticks after index s, in order: the
\* characters at which backtickCount is incremented
TicksFrom(text, s) ==
    LET e == NextBacktick(text, s)
    IN  IF e = 0 THEN <<>> ELSE <<e>> \o TicksFrom(text, e)

\* The 0-based index of the line that holds the character at index p
LineNumber(text, p) == Cardinality({k \in 1..(p - 1) : text[k] = "\n"})

\* extractQueries: what the m-th closing backtick finds, the (2m-1)-th
\* backtick having opened on line queryStart and itself standing on line
\* closeLine (lineOf gives the line of every backtick).  queryLines holds the
\* lines pushed since the opening: the rest of the opening line after the
\* first backtick of that line and the lines up to the one before closeLine,
\* or nothing when both backticks are on one line.  disabled is set at the
\* start of a line that follows a line with the directive and reset at every
\* closing backtick.
ClosingBacktick(lines, lineOf, m) ==
    LET queryStart == lineOf[2 * m - 1]
        closeLine == lineOf[2 * m]
        opening == lines[queryStart + 1]
        queryLines ==
            IF queryStart = closeLine THEN <<>>
            ELSE <<Slice(opening, indexOf(opening, <<Backtick>>) + 2, Len(opening) + 1)>>
                 \o SubSeq(lines, queryStart + 2, closeLine)
        disabled ==
            \E i \in 1..closeLine :
                /\ Contains(lines[i], DisableNextLineDirective)
                /\ \A n \in 1..(m - 1) : lineOf[2 * n] < i
    IN  [text |-> Join(queryLines, <<"\n">>), startLine |-> queryStart,
         disabled |-> disabled]

\* extractQueries(text): the entries pushed, one per closing backtick whose
\* queryText has SELECT and FROM as whole words
extractQueries(text) ==
    LET lines == split(text, "\n")
        ticks == TicksFrom(text, 0)
        lineOf == [k \in 1..Len(ticks) |-> LineNumber(text, ticks[k])]
        found == [m \in 1..(Len(ticks) \div 2) |-> ClosingBacktick(lines, lineOf, m)]
    IN  SelectSeq(found, LAMBDA e : /\ HasWholeWord(e.text, KwSelect)
                                    /\ HasWholeWord(e.text, KwFrom))

\* createDiagnostic(error, queryStartLine): the range, the code and what the
\* localized message is made of, language being the language in effect
createDiagnostic(error, queryStartLine, language) ==
    [line |-> queryStartLine + error.line,
     startColumn |-> error.column,
     endColumn |-> error.column + error.length,
     source |-> "GAQL",
     code |-> error.type,
     message |-> [language |-> language, key |-> error.type,
                  args |-> <<error.field, error.resource>>]]

RECURSIVE DiagnosticsOf(_, _)
\* validateDocument: the loop over the queries
DiagnosticsOf(queries, language) ==
    IF queries = <<>> THEN <<>>
    ELSE LET errors == validateQuery(Head(queries).text).errors
         IN  (IF Head(queries).disabled THEN <<>>
              ELSE [k \in 1..Len(errors) |->
                       createDiagnostic(errors[k], Head(queries).startLine, language)])
             \o DiagnosticsOf(Tail(queries), language)

\* validateDocument(document): what it hands to diagnosticCollection.set on
\* each of its three paths, text being document.getText() and config the
\* settings in effect
validateDocument(text, config) ==
    IF ~config.enabled THEN <<>>
    ELSE IF ~shouldValidate(text, config.activationMode) THEN <<>>
    ELSE DiagnosticsOf(extractQueries(text), config.language)

\* Fault: set() adds the diagnostics to those the collection holds for the uri
SetDiagnostics_Appends(collection, u, list) ==
    [w \in DOMAIN collection \cup {u} |->
        IF w = u THEN (IF u \in DOMAIN collection THEN collection[u] ELSE <<>>) \o list
        ELSE collection[w]]

\* diagnosticCollection.set(uri, diagnostics): replaces the entry of the uri
SetDiagnostics(collection, u, list) ==
    [w \in DOMAIN collection \cup {u} |-> IF w = u THEN list ELSE collection[w]]

\* document.languageId === 'typescript' || document.languageId === 'javascript'
IsScript(document) == document.languageId \in {"typescript", "javascript"}

RECURSIVE SetAll(_, _, _)
\* for (const document of vscode.workspace.textDocuments): validateDocument on
\* each script among the uris, lists holding what each call computes
SetAll(collection, uris, lists) ==
    IF uris = {} THEN collection
    ELSE LET u == CHOOSE u \in uris : TRUE
         IN  SetAll(SetDiagnostics(collection, u, lists[u]), uris \ {u}, lists)

\* The lines that the documents of the model are made of
EnableLine == <<"/","/"," ","@","g","a","q","l">>
DisableNextLine == <<"/","/"," ","@","g","a","q","l","-","d","i","s","a","b","l","e","-","n","e","x","t","-","l","i","n","e">>
OpenLine == <<"c","o","n","s","t"," ","q"," ","="," ",Backtick>>
CloseLine == <<Backtick,";">>
InvalidFieldLine == <<"S","E","L","E","C","T"," ","c","a",".","z","z"," ","F","R","O","M"," ","c","a">>
InvalidResourceLine == <<"S","E","L","E","C","T"," ","c","a",".","i","d"," ","F","R","O","M"," ","z","z">>
ValidLine == <<"S","E","L","E","C","T"," ","c","a",".","i","d"," ","F","R","O","M"," ","c","a">>
OneLineQuery == <<"c","o","n","s","t"," ","s"," ","="," ",Backtick,"S","E","L","E","C","T"," ","c","a",".","z","z"," ","F","R","O","M"," ","c","a",Backtick,";">>

\* Ten empty lines: what follows them is beyond the first ten lines
Padding == [k \in 1..10 |-> <<>>]

\* A template literal on three lines, its body on the middle one
Block(body) == <<OpenLine, body, CloseLine>>

\* The texts of the documents
EditorLines ==
    { <<EnableLine>> \o Block(InvalidFieldLine),
      <<EnableLine>> \o Block(InvalidFieldLine) \o Block(InvalidResourceLine),
      Block(InvalidFieldLine),
      <<EnableLine>> \o Block(ValidLine),
      <<EnableLine, DisableNextLine>> \o Block(InvalidFieldLine) \o Block(InvalidResourceLine),
      <<DisableNextLine>> \o Block(InvalidFieldLine) \o Block(InvalidResourceLine),
      <<EnableLine>> \o Padding \o <<DisableNextLine>> \o Block(InvalidFieldLine)
          \o Block(InvalidResourceLine),
      <<EnableLine>> \o Padding \o <<OpenLine, DisableNextLine, InvalidFieldLine, CloseLine>>
          \o Block(InvalidResourceLine),
      <<EnableLine>> \o Padding \o <<DisableNextLine>> \o Block(ValidLine)
          \o <<OneLineQuery>> }
EditorTexts == {Join(lines, <<"\n">>) : lines \in EditorLines}

\* The documents that a uri can hold
TextsOf(u) ==
    IF u = "a.ts" THEN EditorTexts
    ELSE {Join(<<EnableLine>> \o Block(InvalidFieldLine), <<"\n">>)}
LanguageOf(u) == IF u = "n.md" THEN "markdown" ELSE "typescript"
Uris == {"a.ts", "b.ts", "n.md"}

\* The settings gaql.enabled, gaql.activationMode and gaql.language
EditorSettings ==
    [enabled : BOOLEAN, activationMode : {"always", "onDemand"}, language : {"en", "ja"}]

\* activate(): the API version of the configuration is in effect and stays so,
\* no document is open
InitEditor ==
    /\ documents = <<>>
    /\ diagnostics = <<>>
    /\ settings \in EditorSettings
    /\ currentApiVersion = "21"
    /\ call = [op |-> "activate", uri |-> ""]
    /\ outcome = NoOutcome
    /\ IdleBuilder
    /\ catalog = LoadedSchemas(EntryKeys)
    /\ query = <<>>
    /\ result = NoResult
    /\ returned = FALSE
    /\ IdleSuggest
    /\ IdleContext

\* A handler that calls validateDocument on the document at u if it is a
\* script; the documents after the event are given
Validates(op, u, after) ==
    /\ documents' = after
    /\ UNCHANGED <<settings, currentApiVersion, catalog>>
    /\ diagnostics' = IF IsScript(after[u])
                      THEN SetDiagnostics(diagnostics, u, validateDocument(after[u].text, settings))
                      ELSE diagnostics
    /\ call' = [op |-> op, uri |-> u]
    /\ outcome' = [kind |-> IF IsScript(after[u]) THEN "set" ELSE "skipped",
                   value |-> IF u \in DOMAIN diagnostics' THEN diagnostics'[u] ELSE <<>>,
                   before |-> IF u \in DOMAIN diagnostics THEN diagnostics[u] ELSE <<>>]
    /\ UNCHANGED <<builders, validators, query, result, returned, input, candidates,
                   suggestion, position, version, context, completion>>

\* onDidOpenTextDocument
OnDidOpenTextDocument(u, text) ==
    /\ u \notin DOMAIN documents
    /\ Validates("onDidOpenTextDocument", u,
                 [w \in DOMAIN documents \cup {u} |->
                     IF w = u THEN [languageId |-> LanguageOf(u), text |-> text]
                     ELSE documents[w]])

\* onDidChangeTextDocument
OnDidChangeTextDocument(u, text) ==
    /\ u \in DOMAIN documents
    /\ Validates("onDidChangeTextDocument", u, [documents EXCEPT ![u].text = text])

\* onDidChangeActiveTextEditor
OnDidChangeActiveTextEditor(u) ==
    /\ u \in DOMAIN documents
    /\ Validates("onDidChangeActiveTextEditor", u, documents)

\* onDidChangeConfiguration for gaql.enabled or gaql.activationMode: the
\* handler looks at gaql.apiVersion and gaql.language only
OnDidChangeSettings(config) ==
    /\ config # settings
    /\ config.language = settings.language
    /\ settings' = config
    /\ call' = [op |-> "onDidChangeConfiguration", uri |-> "gaql.enabled"]
    /\ outcome' = [kind |-> "skipped", value |-> <<>>, before |-> <<>>]
    /\ UNCHANGED <<documents, diagnostics, currentApiVersion, catalog, builders, validators,
                   query, result, returned, input, candidates, suggestion, position,
                   version, context, completion>>

\* onDidChangeConfiguration for gaql.language: updateLanguage(newLanguage),
\* then validateDocument on every open script
OnDidChangeLanguage(language) ==
    /\ language # settings.language
    /\ settings' = [settings EXCEPT !.language = language]
    /\ diagnostics' =
          SetAll(diagnostics, {u \in DOMAIN documents : IsScript(documents[u])},
                 [u \in DOMAIN documents |->
                     validateDocument(documents[u].text,
                                      [settings EXCEPT !.language = language])])
    /\ call' = [op |-> "onDidChangeConfiguration", uri |-> "gaql.language"]
    /\ outcome' = [kind |-> "set", value |-> <<>>, before |-> <<>>]
    /\ UNCHANGED <<documents, currentApiVersion, catalog, builders, validators, query,
                   result, returned, input, candidates, suggestion, position, version,
                   context, completion>>

NextEditor ==
    \/ \E u \in Uris : \E text \in TextsOf(u) : OnDidOpenTextDocument(u, text)
    \/ \E u \in Uris : \E text \in TextsOf(u) : OnDidChangeTextDocument(u, text)
    \/ \E u \in Uris : OnDidChangeActiveTextEditor(u)
    \/ \E config \in EditorSettings : OnDidChangeSettings(config)
    \/ \E language \in {"en", "ja"} : OnDidChangeLanguage(language)

SpecEditor == InitEditor /\ [][NextEditor]_vars

----------------------------------------------------------------------------
(* Properties of the editor extension *)

\* The handlers that call validateDocument on one document
ValidatingOps ==
    {"onDidOpenTextDocument", "onDidChangeTextDocument", "onDidChangeActiveTextEditor"}

\* C24: after a handler has called validateDocument on a document, the entry
\* of that document in the diagnostic collection is exactly what that call
\* computed from the text and the settings of the moment, whatever the entry
\* held before; it is empty when validation is disabled or the document is not
\* activated; the entries of the other documents are as they were.  After a
\* change of language every script has the entry computed anew.
C24_LastWriteWins ==
    [][/\ (call'.op \in ValidatingOps /\ IsScript(documents'[call'.uri])) =>
             LET u == call'.uri
                 text == documents'[u].text
             IN  /\ u \in DOMAIN diagnostics'
                 /\ diagnostics'[u] = validateDocument(text, settings')
                 /\ (~settings'.enabled \/ ~shouldValidate(text, settings'.activationMode))
                       => diagnostics'[u] = <<>>
                 /\ \A w \in DOMAIN diagnostics \ {u} :
                       w \in DOMAIN diagnostics' /\ diagnostics'[w] = diagnostics[w]
       /\ (call'.op = "onDidChangeConfiguration" /\ call'.uri = "gaql.language") =>
             \A u \in DOMAIN documents' :
                IsScript(documents'[u]) =>
                   /\ u \in DOMAIN diagnostics'
                   /\ diagnostics'[u] = validateDocument(documents'[u].text, settings')]_vars

\* A document whose entry held two diagnostics was changed to a text with one
\* invalid query: its entry holds the one diagnostic of the latest call
C24_Witness ==
    /\ call = [op |-> "onDidChangeTextDocument", uri |-> "a.ts"]
    /\ outcome.kind = "set"
    /\ Len(outcome.before) = 2
    /\ Len(outcome.value) = 1
    /\ diagnostics["a.ts"] = outcome.value
    /\ diagnostics["a.ts"] = validateDocument(documents["a.ts"].text, settings)

\* name stands in line as a directive of its own, not as the start of a
\* longer one
HasDirective(line, name) ==
    \E k \in 1..Len(line) :
        /\ MatchesAt(line, k, toUpperCase(name))
        /\ SubSeq(line, k, k + Len(name) - 1) = name
        /\ ~(k + Len(name) <= Len(line) /\ line[k + Len(name)] = "-")

\* The document is activated: nothing disables the file, and the activation
\* mode is 'always' or one of the first ten lines enables it
Activated(text, activationMode) ==
    LET lines == split(text, "\n")
    IN  /\ \A k \in 1..Len(lines) : ~HasDirective(lines[k], DisableDirective)
        /\ \/ activationMode = "always"
           \/ \E k \in 1..Min2(10, Len(lines)) :
                 \/ HasDirective(lines[k], GaqlDirective)
                 \/ HasDirective(lines[k], EnableDirective)

\* The queries of a document: its template literals, the backticks taken in
\* pairs, whose body has SELECT and FROM as whole words
DocumentQueries(text) ==
    SelectSeq(LiteralsFrom(text, 1),
              LAMBDA l : HasWholeWord(l.body, KwSelect) /\ HasWholeWord(l.body, KwFrom))

\* The k-th query is the next query after a disable-next-line directive: the
\* first query that opens below a line with the directive
NextAfterDirective(text, k) ==
    LET lines == split(text, "\n")
        queries == DocumentQueries(text)
        startLine == LineNumber(text, queries[k].open)
    IN  \E d \in 1..Len(lines) :
           /\ Contains(lines[d], DisableNextLineDirective)
           /\ startLine > d - 1
           /\ \A j \in 1..(k - 1) : LineNumber(text, queries[j].open) <= d - 1

\* The entry of a document reports error e of a query that opens on startLine
ReportedIn(entry, startLine, e) ==
    \E n \in 1..Len(entry) :
        /\ entry[n].line = startLine + e.line
        /\ entry[n].startColumn = e.column
        /\ entry[n].code = e.type
        /\ entry[n].message.args = <<e.field, e.resource>>

\* C25: when validateDocument has run on an activated document that holds a
\* '@gaql-disable-next-line' directive, wherever the directive stands, the
\* entry of the document reports every error of every query other than the
\* next query after a directive
C25_OnlyNextQueryDisabled ==
    [][(/\ call'.op \in ValidatingOps
        /\ IsScript(documents'[call'.uri])
        /\ settings'.enabled
        /\ Activated(documents'[call'.uri].text, settings'.activationMode)
        /\ Contains(documents'[call'.uri].text, DisableNextLineDirective))
          => LET text == documents'[call'.uri].text
                 queries == DocumentQueries(text)
             IN  \A k \in 1..Len(queries) :
                    ~NextAfterDirective(text, k) =>
                       LET errors == validateQuery(queries[k].body).errors
                       IN  \A n \in 1..Len(errors) :
                              ReportedIn(diagnostics'[call'.uri],
                                         LineNumber(text, queries[k].open), errors[n])]_vars

====
